---- MODULE Spec2Model ----
(***************************************************************************)
(* Authentication and request-identity resolution of the CivicVoice        *)
(* server (server/auth.ts, wired by server/routes.ts).                     *)
(*                                                                         *)
(* A request walks the middleware chain in registration order:             *)
(*   session / passport.session  ->  /api/register, /api/login,            *)
(*   /api/logout, /api/user      ->  gate on "/api/protected/*"            *)
(*   ->  JWT middleware          ->  requireAuth on "/api/protected"       *)
(*   ->  the routes registered after setupAuth.                            *)
(* Every await of the source is a step of its own; the synchronous code    *)
(* between two awaits is one atomic step.                                  *)
(***************************************************************************)
EXTENDS Naturals, Sequences, FiniteSets, TLC

(***************************************************************************)
(* Bounds of the model.                                                    *)
(***************************************************************************)
MaxUsers == 2
MaxSessions == 2
MaxTime == 7
NumSalts == 1
\* The salts a hasher call under study can draw.
NumCalcSalts == 2
\* The projects of the issue board, and the rows its upvote table can take.
MaxProjects == 1
MaxUpvotes == 3
\* The emails the issue board hands to its mailer in one run.
MaxEmails == 2

(***************************************************************************)
(* Program constants.                                                      *)
(***************************************************************************)
\* TOKEN_EXPIRATION = '7d', in days.
TOKEN_EXPIRATION == 7
\* cookie.maxAge = 7 * 24 * 60 * 60 * 1000, in days.
SESSION_MAX_AGE == 7
\* loginSchema: username min(3), password min(8).
MinUsernameLen == 3
MinPasswordLen == 8

Reqs == {"r1"}
UserIds == 1..MaxUsers
SessIds == 1..MaxSessions
Salts == 1..NumSalts

\* The value of a body field that is absent from the JSON body.
Missing == "(undefined)"
Fields(username, email, password) ==
    [username |-> username, email |-> email, password |-> password]
NoFields == Fields(Missing, Missing, Missing)

\* The bodies of POST /api/login: a field missing, a field too short, and
\* well-formed credentials of accounts that may or may not exist.
LoginBodies ==
    {Fields(Missing, Missing, "Secret123"), Fields("alice", Missing, Missing),
     Fields("al", Missing, "Secret123"), Fields("alice", Missing, "short")}
    \cup {Fields(u, Missing, p) : u \in {"alice", "bob"},
                                  p \in {"Secret123", "Password9"}}

\* The bodies of POST /api/register: two accounts, and a third body that
\* shares its email with the first and its username with the second.
RegBodies ==
    {Fields("alice", "a@x.org", "Secret123"), Fields("bob", "b@x.org", "Secret123"),
     Fields("bob", "a@x.org", "Secret123")}

Routes == {"register", "login", "logout", "user",
           "protectedSub", "protectedRoot", "public"}
\* "/api/protected/x" matches both mounts; "/api/protected" itself matches the
\* "/api/protected" mount only (the "/api/protected/*" pattern needs a slash).
ProtectedRoutes == {"protectedSub", "protectedRoot"}

NoSess == 0
NoId == 0

(***************************************************************************)
(* Credential hasher.                                                      *)
(***************************************************************************)
\* scryptSync(password, salt, 64): a deterministic function of the pair,
\* collision free on the inputs of the model.
scryptSync(password, salt) == <<password, salt>>

\* The key length asked of scryptSync, in bytes.
KeyLen == 64

\* The salt of a stored value without a '.': split('.')[1] is undefined.
NoSalt == 0

\* A stored value `${hash}.${salt}`: the digest the hash part holds, the
\* number of bytes the hash part decodes to as hex, and the salt part.
NoHash == [hash |-> <<"", 0>>, len |-> 0, salt |-> NoSalt]

\* A hasher that stores another salt than the one it derived the hash with.
hashPasswordOtherSalt(password, salt) ==
    [hash |-> scryptSync(password, salt), len |-> KeyLen, salt |-> salt + 1]

\* `${hash}.${salt}`, the salt drawn by the caller.
hashPassword(password, salt) ==
    [hash |-> scryptSync(password, salt), len |-> KeyLen, salt |-> salt]

\* comparePasswords throws: scryptSync on an undefined salt (TypeError), or
\* timingSafeEqual on buffers of different byte lengths (RangeError).
comparePasswordsThrows(supplied, stored) ==
    stored.salt = NoSalt \/ stored.len # KeyLen

\* A comparison that accepts every password.
comparePasswordsAny(supplied, stored) == TRUE

\* The value comparePasswords returns when it returns.
comparePasswords(supplied, stored) ==
    scryptSync(supplied, stored.salt) = stored.hash

(***************************************************************************)
(* Token service (jsonwebtoken with JWT_SECRET).                           *)
(***************************************************************************)
JWT_SECRET == "JWT_SECRET"

\* The signature binds the payload to the key.
Signature(id, exp, key) == <<id, exp, key>>

NoToken == [form |-> "none", id |-> NoId, exp |-> 0, sig |-> <<NoId, 0, "">>]
JunkToken == [form |-> "junk", id |-> NoId, exp |-> 0, sig |-> <<NoId, 0, "">>]

\* jwt.sign({ id }, JWT_SECRET, { expiresIn: TOKEN_EXPIRATION }) at time t.
jwtSign(id, t) ==
    [form |-> "jwt", id |-> id, exp |-> t + TOKEN_EXPIRATION,
     sig |-> Signature(id, t + TOKEN_EXPIRATION, JWT_SECRET)]

\* A token whose payload names another identity under the old signature.
Tamper(tok, id) == [tok EXCEPT !.id = id]

\* A verification that reads the claims without checking the signature
\* (jwt.decode for jwt.verify).
jwtDecodeOnly(tok, t) ==
    IF tok.form # "jwt" THEN "JsonWebTokenError"
    ELSE IF t >= tok.exp THEN "TokenExpiredError"
    ELSE "ok"

\* A verification that does not read the expiry (ignoreExpiration).
jwtVerifyNoExpiry(tok, t) ==
    IF tok.form # "jwt" THEN "JsonWebTokenError"
    ELSE IF tok.sig # Signature(tok.id, tok.exp, JWT_SECRET) THEN "JsonWebTokenError"
    ELSE "ok"

\* jwt.verify(token, JWT_SECRET) at time t: "ok", or the error it throws.
\* The signature is checked before the expiry claim is read.
jwtVerify(tok, t) ==
    IF tok.form # "jwt" THEN "JsonWebTokenError"
    ELSE IF tok.sig # Signature(tok.id, tok.exp, JWT_SECRET) THEN "JsonWebTokenError"
    ELSE IF t >= tok.exp THEN "TokenExpiredError"
    ELSE "ok"

\* The id the JWT middleware takes from a token at time t: payload.id of a
\* token that verifies, none when jwt.verify throws.
VerifiedId(tok, t) == IF jwtVerify(tok, t) = "ok" THEN tok.id ELSE NoId

\* An Authorization header: the first word of its value (the scheme) and
\* the second, authHeader.split(' ')[1], the only part the server reads;
\* NoToken (undefined) when the value has no second word.
NoHeader == [present |-> FALSE, scheme |-> "", tok |-> NoToken]
Header(scheme, tok) == [present |-> TRUE, scheme |-> scheme, tok |-> tok]
Bearer(tok) == Header("Bearer", tok)

(***************************************************************************)
(* State.                                                                  *)
(***************************************************************************)
VARIABLES
    users,      \* Identity Store: the set of user records
    nextUserId, \* the serial the next created user gets
    sessions,   \* Session Store: session id -> entry
    nextSid,    \* the next fresh session id
    now,        \* the clock, in days
    jar,        \* the session cookie the client holds, and the response that set it
    heldToken,  \* the token the client keeps from a login response
    req,        \* the requests in flight and their responses
    calc,       \* the call of a pure function under study: inputs and results
    board       \* the issue board: its stores, its outbox, the requests to its routes

server == <<users, nextUserId, sessions, nextSid, now, jar, heldToken, req>>
vars == <<users, nextUserId, sessions, nextSid, now, jar, heldToken, req, calc, board>>

\* No call under study.
NoCalc == [pc |-> "none"]

\* No request to the routes of the issue board.
NoBoard == [route |-> "none"]

NoUser == [id |-> NoId, username |-> "", email |-> "", password |-> NoHash]
NoSession == [live |-> FALSE, user |-> NoId, exp |-> 0]

\* Set-Cookie of a response: the session id, the route that set it, the
\* identity it was set for and its Expires attribute (maxAge from now); out
\* records that a logout has since succeeded on the session of that cookie.
Cookie(sid, via, user) ==
    [sid |-> sid, via |-> via, user |-> user.id, out |-> FALSE,
     expires |-> now + SESSION_MAX_AGE]
NoCookie ==
    [sid |-> NoSess, via |-> "none", user |-> NoId, out |-> FALSE, expires |-> 0]

\* A response that carries the record as the store returned it.
WithPassword(u) == u

\* const { password: _, ...userWithoutPassword } = user
WithoutPassword(u) == [id |-> u.id, username |-> u.username, email |-> u.email]
NoBody == [id |-> NoId, username |-> "", email |-> ""]

Idle ==
    [pc |-> "idle", route |-> "public", cookie |-> NoSess, auth |-> NoHeader,
     uname |-> Missing, email |-> Missing, pw |-> Missing,
     sid |-> NoSess, user |-> NoUser, src |-> "none", found |-> NoUser,
     lookupId |-> NoId,
     status |-> 0, msg |-> "", bodyUser |-> NoBody, bodyTok |-> NoToken,
     newSid |-> NoSess, handlerRan |-> FALSE, seenUser |-> NoUser,
     sessUser |-> NoUser, tokTried |-> FALSE, tokValid |-> FALSE,
     gate |-> "none", gateUser |-> NoId, reqAuth |-> "none", reqAuthUser |-> NoId,
     verdict |-> "none", storeCalls |-> 0, nameCalls |-> 0, hashCalls |-> 0,
     hadSid |-> NoSess, closed |-> FALSE]

(***************************************************************************)
(* Identity Store (the storage object).                                    *)
(***************************************************************************)
Lookup(S) == IF S = {} THEN NoUser ELSE CHOOSE u \in S : TRUE
getUser(id) == Lookup({u \in users : u.id = id})
getUserByUsername(name) == Lookup({u \in users : u.username = name})
getUserByEmail(email) == Lookup({u \in users : u.email = email})

(***************************************************************************)
(* Session Store (memorystore behind express-session).                     *)
(***************************************************************************)
\* store.get(sid): an entry of the store that has not outlived its maxAge.
SessionLive(sid) ==
    /\ sid \in SessIds
    /\ sessions[sid].live
    /\ now < sessions[sid].exp

\* req.isAuthenticated(): req.user is set.
isAuthenticated(rq) == rq.user # NoUser

Respond(rq, status, msg) == [rq EXCEPT !.pc = "done", !.status = status, !.msg = msg]

Init ==
    /\ users = {}
    /\ nextUserId = 1
    /\ sessions = [s \in SessIds |-> NoSession]
    /\ nextSid = 1
    /\ now = 0
    /\ jar = NoCookie
    /\ heldToken = NoToken
    /\ req = [r \in Reqs |-> Idle]
    /\ calc = NoCalc
    /\ board = NoBoard

Quiet == \A q \in Reqs : req[q].pc = "idle"

Put(r, rq) == req' = [req EXCEPT ![r] = rq]

(***************************************************************************)
(* The synchronous middleware and handlers: each maps the request as it    *)
(* arrives to the request as it leaves, either answered (pc = "done") or   *)
(* waiting for the promise named by pc. They run in registration order.    *)
(***************************************************************************)

\* A route registered after setupAuth: it sees req.user as the chain left it.
Handler(rq) ==
    [Respond(rq, 200, "OK") EXCEPT !.handlerRan = TRUE, !.seenUser = rq.user]

\* A requireAuth that lets every request through.
requireAuthOpen(rq) ==
    Handler([rq EXCEPT !.reqAuth = "accept", !.reqAuthUser = rq.user.id])

\* app.use("/api/protected", requireAuth)
requireAuth(rq) ==
    IF ~isAuthenticated(rq)
    THEN [Respond(rq, 401, "Authentication required") EXCEPT
             !.reqAuth = "reject", !.reqAuthUser = rq.user.id]
    ELSE Handler([rq EXCEPT !.reqAuth = "accept", !.reqAuthUser = rq.user.id])

\* What follows the JWT middleware's next(): requireAuth on the protected
\* paths, the route itself elsewhere.
AfterJwt(rq) ==
    IF rq.route \in ProtectedRoutes THEN requireAuth(rq) ELSE Handler(rq)

\* A JWT middleware that honours a token only while its identity holds a
\* live session (tokens revoked by logout).
JwtMiddlewareRevoking(rq) ==
    LET token == rq.auth.tok
        tried == [rq EXCEPT !.tokTried = TRUE] IN
    IF ~rq.auth.present THEN AfterJwt(rq)
    ELSE IF \/ jwtVerify(token, now) # "ok"
            \/ ~\E s \in SessIds : SessionLive(s) /\ sessions[s].user = token.id
    THEN Respond(tried, 403, "Invalid or expired token")
    ELSE IF token.id = NoId
    THEN Respond(tried, 403, "Invalid token payload")
    ELSE [tried EXCEPT !.pc = "jwtLookup", !.lookupId = token.id,
                       !.storeCalls = @ + 1]

\* The JWT middleware, mounted on every path after the auth routes.
JwtMiddleware(rq) ==
    LET token == rq.auth.tok
        tried == [rq EXCEPT !.tokTried = TRUE] IN
    IF ~rq.auth.present THEN AfterJwt(rq)
    ELSE IF jwtVerify(token, now) # "ok"
    THEN Respond(tried, 403, "Invalid or expired token")
    ELSE IF token.id = NoId
    THEN Respond(tried, 403, "Invalid token payload")
    ELSE [tried EXCEPT !.pc = "jwtLookup", !.lookupId = token.id,
                       !.storeCalls = @ + 1]

\* app.use("/api/protected/*", ...): the namespace-wide gate.
NamespaceGate(rq) ==
    IF ~isAuthenticated(rq)
    THEN [Respond(rq, 401, "Not authenticated") EXCEPT
             !.gate = "reject", !.gateUser = rq.user.id]
    ELSE JwtMiddleware([rq EXCEPT !.gate = "accept", !.gateUser = rq.user.id])

\* A /api/user that never answers with the identity.
GetUserNever(rq) ==
    Respond([rq EXCEPT !.handlerRan = TRUE], 401, "Not authenticated")

\* app.get("/api/user")
GetUser(rq) ==
    IF ~isAuthenticated(rq)
    THEN Respond([rq EXCEPT !.handlerRan = TRUE], 401, "Not authenticated")
    ELSE [Respond(rq, 200, "OK") EXCEPT !.handlerRan = TRUE,
                                         !.bodyUser = WithoutPassword(rq.user)]

\* A schema that forgets the username constraint.
loginSchemaPasswordOnly(uname, pw) ==
    pw # Missing /\ Len(pw) >= MinPasswordLen

\* loginSchema.parse(req.body) does not throw.
loginSchema(uname, pw) ==
    /\ uname # Missing /\ Len(uname) >= MinUsernameLen
    /\ pw # Missing /\ Len(pw) >= MinPasswordLen

\* app.post("/api/login"), up to the strategy's await: the body is validated
\* and passport.authenticate("local") starts storage.getUserByUsername.
LoginValidate(rq) ==
    IF ~loginSchema(rq.uname, rq.pw)
    THEN Respond([rq EXCEPT !.handlerRan = TRUE], 400, "Validation error")
    ELSE [rq EXCEPT !.pc = "auth", !.handlerRan = TRUE, !.storeCalls = @ + 1,
                    !.nameCalls = @ + 1]

\* app.post("/api/register"), up to its first await.
RegisterStart(rq) ==
    [rq EXCEPT !.pc = "regName", !.handlerRan = TRUE, !.storeCalls = @ + 1,
               !.nameCalls = @ + 1]

\* app.post("/api/logout"), up to the session write req.logout waits for.
LogoutStart(rq) ==
    [rq EXCEPT !.pc = "logout", !.handlerRan = TRUE, !.hadSid = rq.sid]

\* The router: the first matching layer after passport.session().
Dispatch(rq) ==
    CASE rq.route = "register" -> RegisterStart(rq)
      [] rq.route = "login" -> LoginValidate(rq)
      [] rq.route = "logout" -> LogoutStart(rq)
      [] rq.route = "user" -> GetUser(rq)
      [] rq.route = "protectedSub" -> NamespaceGate(rq)
      [] OTHER -> JwtMiddleware(rq)

(***************************************************************************)
(* A client sends a request: the route, the session cookie of its jar or   *)
(* none, an Authorization header, and the body fields the route reads.     *)
(* app.use(session(sessionOptions)) and app.use(passport.session()) run on *)
(* arrival: the store entry of the cookie is loaded; an entry past its     *)
(* maxAge is dropped by the store, a live one has its expiry renewed       *)
(* (touch). When the session names a user, deserializeUser awaits          *)
(* storage.getUser; otherwise the router runs at once.                     *)
(***************************************************************************)
\* The Authorization headers a client can send: none, garbage, the token it
\* holds, or that token with its payload rewritten to another identity.
\* POST /api/register and POST /api/login are sent with none or garbage.
AuthChoices(route) ==
    {NoHeader, Bearer(JunkToken)}
    \cup (IF heldToken = NoToken \/ route \in {"register", "login"} THEN {}
          ELSE {Bearer(heldToken)}
               \cup {Bearer(Tamper(heldToken, i)) : i \in UserIds \ {heldToken.id}})

Bodies(route) ==
    IF route = "register" THEN RegBodies
    ELSE IF route = "login" THEN LoginBodies
    ELSE {NoFields}

SessionMiddleware(rq) ==
    IF ~SessionLive(rq.cookie) THEN Dispatch(rq)
    ELSE IF sessions[rq.cookie].user = NoId
    THEN Dispatch([rq EXCEPT !.sid = rq.cookie])
    ELSE [rq EXCEPT !.pc = "deser", !.sid = rq.cookie,
                    !.lookupId = sessions[rq.cookie].user,
                    !.storeCalls = @ + 1]

\* The requests in flight that can still create an identity and a session.
Registering == {q \in DOMAIN req : req[q].pc \in {"regName", "regEmail", "regCreate", "regLogin"}}

\* The server takes the request in: the session middleware runs on it and
\* the store entry of its cookie is renewed or dropped.
Accept(r, route, cookie, auth, body) ==
    /\ Put(r, SessionMiddleware(
                 [Idle EXCEPT !.route = route, !.cookie = cookie,
                              !.auth = auth, !.uname = body.username,
                              !.email = body.email, !.pw = body.password,
                              !.tokValid = (jwtVerify(auth.tok, now) = "ok")]))
    /\ sessions' = [s \in SessIds |->
                      IF s # cookie THEN sessions[s]
                      ELSE IF SessionLive(s)
                      THEN [sessions[s] EXCEPT !.exp = now + SESSION_MAX_AGE]
                      ELSE NoSession]
    /\ UNCHANGED <<users, nextUserId, nextSid, now, jar, heldToken, calc, board>>

Arrive(r, routes) ==
    /\ req[r].pc = "idle"
    /\ \E route \in routes, cookie \in {NoSess, jar.sid} :
         /\ route = "register" =>
                /\ nextUserId + Cardinality(Registering) <= MaxUsers
                /\ nextSid + Cardinality(Registering) <= MaxSessions
         /\ route = "login" => nextSid <= MaxSessions
         /\ \E auth \in AuthChoices(route), body \in Bodies(route) :
              Accept(r, route, cookie, auth, body)

\* Requests are taken one at a time.
Receive(r) == Quiet /\ Arrive(r, Routes)

\* A serializer that loses the id.
serializeUserNone(user) == NoId

\* passport.serializeUser: done(null, user.id)
serializeUser(user) == user.id

\* A session step that leaves the session bound to an id it did not find.
deserializeUserKeepsBinding(r) ==
    LET rq == req[r]
        u == getUser(rq.lookupId) IN
    /\ rq.pc = "deser"
    /\ \E ok \in BOOLEAN :
         IF ~ok THEN Put(r, Respond(rq, 500, "Internal Server Error"))
         ELSE IF u = NoUser THEN Put(r, Dispatch(rq))
         ELSE Put(r, Dispatch([rq EXCEPT !.user = u, !.src = "session",
                                         !.sessUser = u]))
    /\ UNCHANGED <<users, nextUserId, sessions, nextSid, now, jar, heldToken, calc, board>>

\* passport.deserializeUser: the lookup resolves to a user, to nothing (the
\* session loses its user), or it throws and the error goes to next(err).
deserializeUser(r) ==
    LET rq == req[r]
        u == getUser(rq.lookupId) IN
    /\ rq.pc = "deser"
    /\ \E ok \in BOOLEAN :
         IF ~ok
         THEN /\ Put(r, Respond(rq, 500, "Internal Server Error"))
              /\ UNCHANGED sessions
         ELSE IF u = NoUser
         THEN /\ Put(r, Dispatch(rq))
              /\ sessions' = [sessions EXCEPT ![rq.sid].user = NoId]
         ELSE /\ Put(r, Dispatch([rq EXCEPT !.user = u, !.src = "session",
                                            !.sessUser = u]))
              /\ UNCHANGED sessions
    /\ UNCHANGED <<users, nextUserId, nextSid, now, jar, heldToken, calc, board>>

\* A catch that answers with the message of the error it caught.
JwtLookupLeaky(r) ==
    LET rq == req[r]
        u == getUser(rq.lookupId) IN
    /\ rq.pc = "jwtLookup"
    /\ \E ok \in BOOLEAN :
         IF ~ok THEN Put(r, Respond(rq, 500, "connect ECONNREFUSED"))
         ELSE IF u = NoUser THEN Put(r, Respond(rq, 403, "User not found"))
         ELSE Put(r, AfterJwt([rq EXCEPT !.user = u, !.src = "token"]))
    /\ UNCHANGED <<users, nextUserId, sessions, nextSid, now, jar, heldToken, calc, board>>

\* A then-callback that goes on without looking at what the lookup found.
JwtLookupNoUserCheck(r) ==
    LET rq == req[r]
        u == getUser(rq.lookupId) IN
    /\ rq.pc = "jwtLookup"
    /\ \E ok \in BOOLEAN :
         IF ~ok THEN Put(r, Respond(rq, 500, "Internal server error"))
         ELSE Put(r, AfterJwt([rq EXCEPT !.user = u, !.src = "token"]))
    /\ UNCHANGED <<users, nextUserId, sessions, nextSid, now, jar, heldToken, calc, board>>

\* storage.getUser(payload.id).then(...).catch(...) of the JWT middleware.
JwtLookup(r) ==
    LET rq == req[r]
        u == getUser(rq.lookupId) IN
    /\ rq.pc = "jwtLookup"
    /\ \E ok \in BOOLEAN :
         IF ~ok THEN Put(r, Respond(rq, 500, "Internal server error"))
         ELSE IF u = NoUser THEN Put(r, Respond(rq, 403, "User not found"))
         ELSE Put(r, AfterJwt([rq EXCEPT !.user = u, !.src = "token"]))
    /\ UNCHANGED <<users, nextUserId, sessions, nextSid, now, jar, heldToken, calc, board>>

\* req.login(user, cb): the session is regenerated under a fresh id (the old
\* entry is destroyed), the serialized user is written to it and it is saved.
Regenerated(rq, user) ==
    [s \in SessIds |->
        IF s = nextSid
        THEN [live |-> TRUE, user |-> serializeUser(user), exp |-> now + SESSION_MAX_AGE]
        ELSE IF s = rq.sid THEN NoSession
        ELSE sessions[s]]

(***************************************************************************)
(* app.post("/api/register"): the awaits of the handler.                   *)
(***************************************************************************)
RegisterCheckUsername(r) ==
    LET rq == [req[r] EXCEPT !.storeCalls = @ + 1] IN
    /\ req[r].pc = "regName"
    /\ \E ok \in BOOLEAN :
         IF ~ok THEN Put(r, Respond(req[r], 500, "Registration failed"))
         ELSE IF getUserByUsername(rq.uname) # NoUser
         THEN Put(r, Respond(req[r], 400, "Username already taken"))
         ELSE Put(r, [rq EXCEPT !.pc = "regEmail"])
    /\ UNCHANGED <<users, nextUserId, sessions, nextSid, now, jar, heldToken, calc, board>>

\* A handler that goes on to createUser without reading the email check.
RegisterCheckEmailSkipped(r) ==
    LET rq == [req[r] EXCEPT !.storeCalls = @ + 1, !.hashCalls = @ + 1] IN
    /\ req[r].pc = "regEmail"
    /\ Put(r, [rq EXCEPT !.pc = "regCreate"])
    /\ UNCHANGED <<users, nextUserId, sessions, nextSid, now, jar, heldToken, calc, board>>

RegisterCheckEmail(r) ==
    LET rq == [req[r] EXCEPT !.storeCalls = @ + 1, !.hashCalls = @ + 1] IN
    /\ req[r].pc = "regEmail"
    /\ \E ok \in BOOLEAN :
         IF ~ok THEN Put(r, Respond(req[r], 500, "Registration failed"))
         ELSE IF getUserByEmail(rq.email) # NoUser
         THEN Put(r, Respond(req[r], 400, "Email already registered"))
         ELSE Put(r, [rq EXCEPT !.pc = "regCreate"])
    /\ UNCHANGED <<users, nextUserId, sessions, nextSid, now, jar, heldToken, calc, board>>

\* storage.createUser: the record gets the next serial id.
createUser(username, email, password) ==
    [id |-> nextUserId, username |-> username, email |-> email, password |-> password]

\* A table without the unique constraints.
UniqueViolationNever(user) == FALSE

\* users.username and users.email are unique(): an insert that repeats one
\* of them is refused.
UniqueViolation(user) ==
    \E u \in users : u.username = user.username \/ u.email = user.email

\* createUser resolves (or rejects, as it does for a refused insert);
\* req.login starts regenerating the session.
RegisterCreate(r) ==
    LET rq == req[r] IN
    /\ rq.pc = "regCreate"
    /\ \E ok \in BOOLEAN, salt \in Salts :
         LET user == createUser(rq.uname, rq.email, hashPassword(rq.pw, salt)) IN
         IF ~ok \/ UniqueViolation(user)
         THEN /\ Put(r, Respond(rq, 500, "Registration failed"))
              /\ UNCHANGED <<users, nextUserId>>
         ELSE /\ users' = users \cup {user}
              /\ nextUserId' = nextUserId + 1
              /\ Put(r, [rq EXCEPT !.pc = "regLogin", !.found = user])
    /\ UNCHANGED <<sessions, nextSid, now, jar, heldToken, calc, board>>

RegisterLogin(r) ==
    LET rq == req[r] IN
    /\ rq.pc = "regLogin"
    /\ \E ok \in BOOLEAN :
         IF ~ok
         THEN /\ Put(r, Respond(rq, 500, "Login failed after registration"))
              /\ UNCHANGED <<sessions, nextSid, jar>>
         ELSE /\ sessions' = Regenerated(rq, rq.found)
              /\ nextSid' = nextSid + 1
              /\ jar' = Cookie(nextSid, "register", rq.found)
              /\ Put(r, [Respond(rq, 201, "Created") EXCEPT
                            !.user = rq.found, !.sid = nextSid, !.newSid = nextSid,
                            !.bodyUser = WithoutPassword(rq.found)])
    /\ UNCHANGED <<users, nextUserId, now, heldToken, calc, board>>

(***************************************************************************)
(* app.post("/api/login"): the awaits of the strategy and of req.login.    *)
(***************************************************************************)
\* The LocalStrategy verify callback on the looked-up user: its verdict.
LocalStrategy(u, password) ==
    IF u = NoUser THEN "nouser"
    ELSE IF comparePasswordsThrows(password, u.password) THEN "error"
    ELSE IF ~comparePasswords(password, u.password) THEN "badpw"
    ELSE "ok"

\* A verify callback that tells an unknown account from a wrong password.
VerifyInfoNoSuchUser(verdict) ==
    IF verdict = "nouser" THEN "No such user"
    ELSE "Incorrect username or password"

\* The info message the verify callback hands to done(null, false, info).
VerifyInfo(verdict) ==
    IF verdict = "nouser" THEN "Incorrect username or password"
    ELSE "Incorrect username or password"

\* The lookup resolves; the verify callback and the authenticate callback
\* run, and on success req.login starts regenerating the session.
LoginAuthenticate(r) ==
    LET rq == req[r]
        u == getUserByUsername(rq.uname)
        verdict == LocalStrategy(u, rq.pw) IN
    /\ rq.pc = "auth"
    /\ \E ok \in BOOLEAN :
         IF ~ok \/ verdict = "error"
         THEN Put(r, [Respond(rq, 500, "Internal Server Error") EXCEPT
                         !.verdict = "error"])
         ELSE IF verdict = "nouser"
         THEN Put(r, [Respond(rq, 401, VerifyInfo(verdict)) EXCEPT
                         !.verdict = verdict])
         ELSE IF verdict = "badpw"
         THEN Put(r, [Respond(rq, 401, VerifyInfo(verdict)) EXCEPT
                         !.verdict = verdict, !.hashCalls = @ + 1])
         ELSE Put(r, [rq EXCEPT !.pc = "loginSess", !.verdict = verdict,
                                !.hashCalls = @ + 1, !.found = u])
    /\ UNCHANGED <<users, nextUserId, sessions, nextSid, now, jar, heldToken, calc, board>>

\* The req.login callback: the session is established, the token is signed
\* and both go out with the identity; the client keeps the token.
LoginEstablish(r) ==
    LET rq == req[r]
        token == jwtSign(rq.found.id, now) IN
    /\ rq.pc = "loginSess"
    /\ \E ok \in BOOLEAN :
         IF ~ok
         THEN /\ Put(r, Respond(rq, 500, "Internal Server Error"))
              /\ UNCHANGED <<sessions, nextSid, jar, heldToken>>
         ELSE /\ sessions' = Regenerated(rq, rq.found)
              /\ nextSid' = nextSid + 1
              /\ jar' = Cookie(nextSid, "login", rq.found)
              /\ heldToken' = token
              /\ Put(r, [Respond(rq, 200, "OK") EXCEPT
                            !.user = rq.found, !.sid = nextSid, !.newSid = nextSid,
                            !.bodyUser = WithoutPassword(rq.found),
                            !.bodyTok = token])
    /\ UNCHANGED <<users, nextUserId, now, calc, board>>

(***************************************************************************)
(* app.post("/api/logout"): req.logout removes the user from the session   *)
(* and regenerates it, which destroys the stored entry.                    *)
(***************************************************************************)
\* A logout that leaves the stored entry in place.
destroyNothing(sid) == sessions

\* A logout that empties the store (store.clear for store.destroy).
destroyAll(sid) == [s \in SessIds |-> NoSession]

\* store.destroy(sid) of the regeneration: the entry is removed; removing an
\* entry that is not there changes nothing.
destroy(sid) == [s \in SessIds |-> IF s = sid THEN NoSession ELSE sessions[s]]

Logout(r) ==
    LET rq == req[r] IN
    /\ rq.pc = "logout"
    /\ \E ok \in BOOLEAN :
         IF ~ok
         THEN /\ Put(r, Respond(rq, 500, "Logout failed"))
              /\ UNCHANGED <<sessions, jar>>
         ELSE /\ sessions' = destroy(rq.sid)
              /\ jar' = IF rq.sid # NoSess /\ rq.sid = jar.sid
                        THEN [jar EXCEPT !.out = TRUE] ELSE jar
              /\ Put(r, [Respond(rq, 200, "OK") EXCEPT !.user = NoUser,
                                                         !.sid = NoSess])
    /\ UNCHANGED <<users, nextUserId, nextSid, now, heldToken, calc, board>>

\* The response has gone out and the request object is dropped.
Complete(r) ==
    /\ req[r].pc = "done"
    /\ Put(r, Idle)
    /\ UNCHANGED <<users, nextUserId, sessions, nextSid, now, jar, heldToken, calc, board>>

(***************************************************************************)
(* The environment: days pass between requests, and an account can be      *)
(* removed from the Identity Store at any time.                            *)
(***************************************************************************)
\* The expiry times that lie ahead: of the stored sessions, of the held token.
Deadlines ==
    {sessions[s].exp : s \in {x \in SessIds : sessions[x].live}}
    \cup (IF heldToken = NoToken THEN {} ELSE {heldToken.exp})

\* The clock moves to the next deadlines: the days in between compare with
\* every expiry as the day the clock left does.
Tick ==
    /\ Quiet
    /\ \E t \in Deadlines :
         /\ now < t /\ t <= MaxTime
         /\ now' = t
    /\ UNCHANGED <<users, nextUserId, sessions, nextSid, jar, heldToken, req, calc, board>>

DeleteUser ==
    /\ \E u \in users : users' = users \ {u}
    /\ UNCHANGED <<nextUserId, sessions, nextSid, now, jar, heldToken, req, calc, board>>

Next ==
    \/ \E r \in Reqs :
         \/ Receive(r)
         \/ deserializeUser(r)
         \/ JwtLookup(r)
         \/ RegisterCheckUsername(r)
         \/ RegisterCheckEmail(r)
         \/ RegisterCreate(r)
         \/ RegisterLogin(r)
         \/ LoginAuthenticate(r)
         \/ LoginEstablish(r)
         \/ Logout(r)
         \/ Complete(r)
    \/ Tick
    \/ DeleteUser

Spec == Init /\ [][Next]_vars

(***************************************************************************)
(* Concurrent registrations: two POST /api/register requests in flight at  *)
(* once, their awaits interleaved in every order.                          *)
(***************************************************************************)
RaceReqs == {"r1", "r2"}

InitRace ==
    /\ users = {}
    /\ nextUserId = 1
    /\ sessions = [s \in SessIds |-> NoSession]
    /\ nextSid = 1
    /\ now = 0
    /\ jar = NoCookie
    /\ heldToken = NoToken
    /\ req = [r \in RaceReqs |-> Idle]
    /\ calc = NoCalc
    /\ board = NoBoard

\* A register request arrives while another may be in flight.
ReceiveRegister(r) == Arrive(r, {"register"})

NextRace ==
    \E r \in RaceReqs :
        \/ ReceiveRegister(r)
        \/ deserializeUser(r)
        \/ RegisterCheckUsername(r)
        \/ RegisterCheckEmail(r)
        \/ RegisterCreate(r)
        \/ RegisterLogin(r)
        \/ Complete(r)

SpecRace == InitRace /\ [][NextRace]_vars

(***************************************************************************)
(* The hasher on its own: hashPassword is called on a password, the stored *)
(* value may be replaced by a malformed one (a record written by other     *)
(* means), comparePasswords is called on it with a supplied password, and  *)
(* the LocalStrategy verify callback runs on a user that holds it.         *)
(***************************************************************************)
Passwords == {"Secret123", "Password9", "Secret124", ""}
CalcSalts == 1..NumCalcSalts

\* randomBytes(16): the bytes of a salt.
SaltLen == 16

\* The malformed stored values: no '.' (the whole string is the hash part
\* and the salt is undefined), an empty hash part, a hash part cut short,
\* and a hash part with a character that is not hex (Buffer.from(s, 'hex')
\* stops decoding at it).
MalformedKinds == {"noseparator", "emptyhash", "shorthash", "nonhex"}
Malformed(stored, kind) ==
    CASE kind = "noseparator" ->
             [stored EXCEPT !.salt = NoSalt, !.len = KeyLen + SaltLen]
      [] kind = "emptyhash" -> [stored EXCEPT !.hash = <<"", 0>>, !.len = 0]
      [] kind = "shorthash" -> [stored EXCEPT !.len = KeyLen - 1]
      [] OTHER -> [stored EXCEPT !.len = KeyLen \div 2]

InitHash ==
    /\ users = {}
    /\ nextUserId = 1
    /\ sessions = [s \in SessIds |-> NoSession]
    /\ nextSid = 1
    /\ now = 0
    /\ jar = NoCookie
    /\ heldToken = NoToken
    /\ req = [r \in Reqs |-> Idle]
    /\ board = NoBoard
    /\ \E p \in Passwords, q \in Passwords :
          calc = [pc |-> "hash", password |-> p, supplied |-> q,
                  stored |-> NoHash, kind |-> "none", outcome |-> "none",
                  verdict |-> "none"]

\* hashPassword(password)
HashCall ==
    /\ calc.pc = "hash"
    /\ \E salt \in CalcSalts :
          calc' = [calc EXCEPT !.pc = "stored", !.kind = "wellformed",
                               !.stored = hashPassword(calc.password, salt)]
    /\ UNCHANGED <<server, board>>

Malform ==
    /\ calc.pc = "stored" /\ calc.kind = "wellformed"
    /\ \E kind \in MalformedKinds :
          calc' = [calc EXCEPT !.kind = kind,
                               !.stored = Malformed(calc.stored, kind)]
    /\ UNCHANGED <<server, board>>

\* comparePasswords(supplied, stored): what it returns, or that it throws.
CompareCall ==
    /\ calc.pc = "stored"
    /\ calc' = [calc EXCEPT
                  !.pc = "compared",
                  !.outcome =
                      IF comparePasswordsThrows(calc.supplied, calc.stored)
                      THEN "throws"
                      ELSE IF comparePasswords(calc.supplied, calc.stored)
                      THEN "true" ELSE "false"]
    /\ UNCHANGED <<server, board>>

\* The verify callback on a user whose password is the stored value.
VerifyCall ==
    /\ calc.pc = "compared"
    /\ calc' = [calc EXCEPT
                  !.pc = "verified",
                  !.verdict =
                      LocalStrategy([NoUser EXCEPT !.id = 1, !.username = "alice",
                                                   !.password = calc.stored],
                                    calc.supplied)]
    /\ UNCHANGED <<server, board>>

NextHash == HashCall \/ Malform \/ CompareCall \/ VerifyCall

SpecHash == InitHash /\ [][NextHash]_vars

(***************************************************************************)
(* The token service on its own: a token is signed for an id at some time, *)
(* or made up by someone without JWT_SECRET, its payload may be rewritten, *)
(* and it is verified at some time at or after its issue.                  *)
(***************************************************************************)
CalcTimes == 0..(MaxTime + 1)
IssueTimes == {0, 1}

\* The keys of someone who does not know JWT_SECRET: a guess, and no key at
\* all (an unsigned token).
OtherKeys == {"guess", ""}

InitToken ==
    /\ users = {}
    /\ nextUserId = 1
    /\ sessions = [s \in SessIds |-> NoSession]
    /\ nextSid = 1
    /\ now = 0
    /\ jar = NoCookie
    /\ heldToken = NoToken
    /\ req = [r \in Reqs |-> Idle]
    /\ board = NoBoard
    /\ \E id \in UserIds, t \in IssueTimes :
          calc = [pc |-> "sign", id |-> id, issued |-> t, tok |-> NoToken,
                  kind |-> "none", at |-> 0, result |-> "none",
                  payloadId |-> NoId]

\* jwt.sign({ id }, JWT_SECRET, { expiresIn: TOKEN_EXPIRATION })
TokenSign ==
    /\ calc.pc = "sign"
    /\ calc' = [calc EXCEPT !.pc = "token", !.kind = "issued",
                            !.tok = jwtSign(calc.id, calc.issued)]
    /\ UNCHANGED <<server, board>>

\* The same claims under a signature made with another key.
TokenForge ==
    /\ calc.pc = "sign"
    /\ \E key \in OtherKeys :
          calc' = [calc EXCEPT
                     !.pc = "token", !.kind = "forged",
                     !.tok = [jwtSign(calc.id, calc.issued) EXCEPT
                                 !.sig = Signature(calc.id,
                                                   calc.issued + TOKEN_EXPIRATION,
                                                   key)]]
    /\ UNCHANGED <<server, board>>

\* The payload of an issued token rewritten under its old signature: another
\* id, or a later expiry.
TokenTamper ==
    /\ calc.pc = "token" /\ calc.kind = "issued"
    /\ \/ \E id \in UserIds \ {calc.id} :
            calc' = [calc EXCEPT !.kind = "tampered", !.tok = Tamper(calc.tok, id)]
       \/ calc' = [calc EXCEPT !.kind = "tampered", !.tok.exp = @ + 1]
    /\ UNCHANGED <<server, board>>

\* jwt.verify(token, JWT_SECRET) at a time from the issue on.
TokenVerify ==
    /\ calc.pc = "token"
    /\ \E t \in CalcTimes :
          /\ t >= calc.issued
          /\ calc' = [calc EXCEPT !.pc = "verified", !.at = t,
                                  !.result = jwtVerify(calc.tok, t),
                                  !.payloadId = VerifiedId(calc.tok, t)]
    /\ UNCHANGED <<server, board>>

NextToken == TokenSign \/ TokenForge \/ TokenTamper \/ TokenVerify

SpecToken == InitToken /\ [][NextToken]_vars

(***************************************************************************)
(* Sessions over the days: one account exists, the client logs in and out  *)
(* and comes back with its cookie or its token on later days, and the      *)
(* account can be removed. The clock moves a day at a time.                *)
(***************************************************************************)
SessionRoutes == {"login", "logout", "user", "public"}

\* The store holds alice; nobody is logged in.
InitSession ==
    /\ users = {[id |-> 1, username |-> "alice", email |-> "a@x.org",
                 password |-> hashPassword("Secret123", 1)]}
    /\ nextUserId = 2
    /\ sessions = [s \in SessIds |-> NoSession]
    /\ nextSid = 1
    /\ now = 0
    /\ jar = NoCookie
    /\ heldToken = NoToken
    /\ req = [r \in Reqs |-> Idle]
    /\ calc = NoCalc
    /\ board = NoBoard

ReceiveSession(r) == Quiet /\ Arrive(r, SessionRoutes)

\* A day passes between two requests.
TickDay ==
    /\ Quiet
    /\ now < MaxTime
    /\ now' = now + 1
    /\ UNCHANGED <<users, nextUserId, sessions, nextSid, jar, heldToken, req, calc, board>>

NextSession ==
    \/ \E r \in Reqs :
         \/ ReceiveSession(r)
         \/ deserializeUser(r)
         \/ JwtLookup(r)
         \/ LoginAuthenticate(r)
         \/ LoginEstablish(r)
         \/ Logout(r)
         \/ Complete(r)
    \/ TickDay
    \/ DeleteUser

SpecSession == InitSession /\ [][NextSession]_vars

(***************************************************************************)
(* Requests side by side: two requests are in flight at once, each with    *)
(* the session cookie or the token of the client or neither, their store   *)
(* lookups resolve in every order, and a client can close its connection   *)
(* while a lookup is in flight.                                            *)
(***************************************************************************)
TornRoutes == {"public", "protectedRoot"}

\* The records of the two accounts.
TornUsers ==
    {[id |-> 1, username |-> "alice", email |-> "a@x.org",
      password |-> hashPassword("Secret123", 1)],
     [id |-> 2, username |-> "bob", email |-> "b@x.org",
      password |-> hashPassword("Secret123", 1)]}

\* alice has logged in and the client holds her token; bob has registered
\* since, and the client's cookie is the one of his session.
InitTorn ==
    /\ users = TornUsers
    /\ nextUserId = 3
    /\ now = 0
    /\ sessions = [s \in SessIds |->
                     IF s \in {1, 2}
                     THEN [live |-> TRUE, user |-> s, exp |-> now + SESSION_MAX_AGE]
                     ELSE NoSession]
    /\ nextSid = 3
    /\ jar = Cookie(2, "register", [id |-> 2])
    /\ heldToken = jwtSign(1, now)
    /\ req = [r \in RaceReqs |-> Idle]
    /\ calc = NoCalc
    /\ board = NoBoard

\* A request arrives while another may be in flight.
ReceiveTorn(r) == Arrive(r, TornRoutes)

\* The client closes the connection of a request whose lookup is in flight.
\* Nothing in the server listens for it: the promise chain goes on.
Close(r) ==
    /\ req[r].pc \in {"deser", "jwtLookup"}
    /\ ~req[r].closed
    /\ Put(r, [req[r] EXCEPT !.closed = TRUE])
    /\ UNCHANGED <<users, nextUserId, sessions, nextSid, now, jar, heldToken, calc, board>>

NextTorn ==
    \/ \E r \in RaceReqs :
         \/ ReceiveTorn(r)
         \/ deserializeUser(r)
         \/ JwtLookup(r)
         \/ Close(r)
         \/ Complete(r)
    \/ DeleteUser

SpecTorn == InitTorn /\ [][NextTorn]_vars

(***************************************************************************)
(* Authorization headers of every shape: requests to the routes behind the *)
(* JWT middleware carry a header under the Bearer scheme or another, with  *)
(* a second word or without, the word being a token the server signed      *)
(* (now or long ago), a token signed with JWT_SECRET over a payload        *)
(* without an id, a token signed with another key, or no token at all.     *)
(***************************************************************************)
HeaderRoutes == {"public", "protectedRoot"}
Schemes == {"Bearer", "Basic"}

\* The second words: what a client can have been given, and what it can
\* make up.
OfferedTokens ==
    {jwtSign(i, t) : i \in UserIds \cup {NoId}, t \in {0, now}}
    \cup {[jwtSign(i, now) EXCEPT !.sig = Signature(i, now + TOKEN_EXPIRATION, "guess")] :
             i \in UserIds}
    \cup {JunkToken}

\* The header values: scheme and word, a scheme alone, and a single word
\* that is not a scheme (a value without a space).
HeaderValues ==
    {Header(s, tok) : s \in Schemes, tok \in OfferedTokens \cup {NoToken}}
    \cup {Header("(one word)", NoToken)}

\* Both accounts exist, alice is logged in, and the tokens of the first day
\* have run out.
InitHeader ==
    /\ users = TornUsers
    /\ nextUserId = 3
    /\ now = MaxTime
    /\ sessions = [s \in SessIds |->
                     IF s = 1
                     THEN [live |-> TRUE, user |-> 1, exp |-> now + SESSION_MAX_AGE]
                     ELSE NoSession]
    /\ nextSid = 2
    /\ jar = Cookie(1, "login", [id |-> 1])
    /\ heldToken = jwtSign(1, now)
    /\ req = [r \in Reqs |-> Idle]
    /\ calc = NoCalc
    /\ board = NoBoard

ReceiveHeader(r) ==
    /\ Quiet
    /\ \E route \in HeaderRoutes, cookie \in {NoSess, jar.sid}, auth \in HeaderValues :
          Accept(r, route, cookie, auth, NoFields)

NextHeader ==
    \/ \E r \in Reqs :
         \/ ReceiveHeader(r)
         \/ deserializeUser(r)
         \/ JwtLookup(r)
         \/ Complete(r)
    \/ DeleteUser

SpecHeader == InitHeader /\ [][NextHeader]_vars

(***************************************************************************)
(* POST /api/projects/:id/upvote: two requests in flight at once, their    *)
(* awaits interleaved in every order. The upvotes table has a serial id    *)
(* and no unique constraint: createUpvote adds a row.                      *)
(***************************************************************************)
ProjectIds == 1..MaxProjects
\* The ids a request can name: the projects, one id of no project, and a
\* path segment that is not a number.
NotANumber == 0
RequestedIds == ProjectIds \cup {MaxProjects + 1, NotANumber}
IpAddresses == {"10.0.0.1", "10.0.0.2"}

UpvoteIdle ==
    [pc |-> "idle", projectId |-> NotANumber, ip |-> "", status |-> 0,
     msg |-> "", created |-> FALSE, sawUpvote |-> FALSE]

InitUpvote ==
    /\ users = {}
    /\ nextUserId = 1
    /\ sessions = [s \in SessIds |-> NoSession]
    /\ nextSid = 1
    /\ now = 0
    /\ jar = NoCookie
    /\ heldToken = NoToken
    /\ req = [r \in Reqs |-> Idle]
    /\ calc = NoCalc
    /\ board = [route |-> "upvote", projects |-> ProjectIds, upvotes |-> <<>>,
                reqs |-> [q \in RaceReqs |-> UpvoteIdle]]

UpvotePut(q, rq) == board' = [board EXCEPT !.reqs[q] = rq]
UpvoteRespond(rq, status, msg) ==
    [rq EXCEPT !.pc = "done", !.status = status, !.msg = msg]

\* The requests in flight that can still add a row.
Upvoting ==
    {q \in RaceReqs : board.reqs[q].pc \in {"getProject", "hasUpvoted", "create"}}

\* storage.hasUserUpvoted(projectId, ipAddress)
hasUserUpvoted(projectId, ipAddress) ==
    \E i \in DOMAIN board.upvotes :
        board.upvotes[i] = [projectId |-> projectId, ipAddress |-> ipAddress]

\* The handler up to its first await: parseInt of the path segment.
UpvoteReceive(q) ==
    /\ board.reqs[q].pc = "idle"
    /\ Len(board.upvotes) + Cardinality(Upvoting) < MaxUpvotes
    /\ \E id \in RequestedIds, ip \in IpAddresses :
          LET rq == [UpvoteIdle EXCEPT !.projectId = id, !.ip = ip] IN
          IF id = NotANumber
          THEN UpvotePut(q, UpvoteRespond(rq, 400, "Invalid project ID"))
          ELSE UpvotePut(q, [rq EXCEPT !.pc = "getProject"])
    /\ UNCHANGED <<server, calc>>

\* await storage.getProjectById(projectId)
UpvoteGetProject(q) ==
    LET rq == board.reqs[q] IN
    /\ rq.pc = "getProject"
    /\ \E ok \in BOOLEAN :
          IF ~ok THEN UpvotePut(q, UpvoteRespond(rq, 500, "Failed to upvote project"))
          ELSE IF rq.projectId \notin board.projects
          THEN UpvotePut(q, UpvoteRespond(rq, 404, "Project not found"))
          ELSE UpvotePut(q, [rq EXCEPT !.pc = "hasUpvoted"])
    /\ UNCHANGED <<server, calc>>

\* await storage.hasUserUpvoted(projectId, ipAddress)
UpvoteCheck(q) ==
    LET rq == board.reqs[q] IN
    /\ rq.pc = "hasUpvoted"
    /\ \E ok \in BOOLEAN :
          IF ~ok THEN UpvotePut(q, UpvoteRespond(rq, 500, "Failed to upvote project"))
          ELSE IF hasUserUpvoted(rq.projectId, rq.ip)
          THEN UpvotePut(q, [UpvoteRespond(rq, 400, "You have already upvoted this project")
                                EXCEPT !.sawUpvote = TRUE])
          ELSE UpvotePut(q, [rq EXCEPT !.pc = "create"])
    /\ UNCHANGED <<server, calc>>

\* await storage.createUpvote(upvoteData): a row is added.
UpvoteCreate(q) ==
    LET rq == board.reqs[q] IN
    /\ rq.pc = "create"
    /\ \E ok \in BOOLEAN :
          IF ~ok THEN UpvotePut(q, UpvoteRespond(rq, 500, "Failed to upvote project"))
          ELSE board' = [board EXCEPT
                            !.upvotes = Append(@, [projectId |-> rq.projectId,
                                                   ipAddress |-> rq.ip]),
                            !.reqs[q] = [rq EXCEPT !.pc = "reload", !.created = TRUE]]
    /\ UNCHANGED <<server, calc>>

\* await storage.getProjectById(projectId); res.json(updatedProject)
UpvoteReload(q) ==
    LET rq == board.reqs[q] IN
    /\ rq.pc = "reload"
    /\ \E ok \in BOOLEAN :
          IF ~ok THEN UpvotePut(q, UpvoteRespond(rq, 500, "Failed to upvote project"))
          ELSE UpvotePut(q, UpvoteRespond(rq, 200, "OK"))
    /\ UNCHANGED <<server, calc>>

UpvoteComplete(q) ==
    /\ board.reqs[q].pc = "done"
    /\ UpvotePut(q, UpvoteIdle)
    /\ UNCHANGED <<server, calc>>

NextUpvote ==
    \E q \in RaceReqs :
        \/ UpvoteReceive(q)
        \/ UpvoteGetProject(q)
        \/ UpvoteCheck(q)
        \/ UpvoteCreate(q)
        \/ UpvoteReload(q)
        \/ UpvoteComplete(q)

SpecUpvote == InitUpvote /\ [][NextUpvote]_vars

(***************************************************************************)
(* POST /api/send-email: validate the body, load the project, hand the     *)
(* message to sendEmail, and record the email once it reports success.     *)
(***************************************************************************)
Null == "(null)"

\* The projects of the board as the mail route reads them.
Project(id) ==
    [id |-> id, emailTemplate |-> "Dear Sir or Madam",
     emailRecipient |-> "publicworks@cityname.gov",
     emailSubject |-> "Request: crosswalk"]

\* The bodies a client posts. A body without a numeric projectId does not
\* pass insertEmailSchema.
EmailBodies ==
    [projectId : {1, MaxProjects + 1, NotANumber},
     senderEmail : {Null, " Ann@Example.org", "ann.example.org"},
     customContent : {Null, "Please repaint it"}]

insertEmailSchemaAccepts(body) == body.projectId # NotANumber

\* normalizeEmail: trimmed and lower-cased, or null when it is no address.
normalizeEmail(email) ==
    CASE email = Null -> Null
      [] email = " Ann@Example.org" -> "ann@example.org"
      [] OTHER -> Null

\* The outcome of transporter.sendMail.
SmtpOutcomes == {"sent", "connect ECONNREFUSED"}

\* sendEmail never throws: it reports success, or failure with the cause.
sendEmail(simulate, outcome) ==
    IF simulate THEN [success |-> TRUE, message |-> "Email simulation successful"]
    ELSE IF outcome = "sent"
    THEN [success |-> TRUE, message |-> "Email sent successfully"]
    ELSE [success |-> FALSE, message |-> "Failed to send email: connect ECONNREFUSED"]

NoResult == [success |-> FALSE, message |-> "(not called)"]

EmailIdle ==
    [pc |-> "idle", body |-> [projectId |-> NotANumber, senderEmail |-> Null,
                              customContent |-> Null],
     status |-> 0, msg |-> "", result |-> NoResult, emails0 |-> 0, outbox0 |-> 0]

InitEmail ==
    /\ users = {}
    /\ nextUserId = 1
    /\ sessions = [s \in SessIds |-> NoSession]
    /\ nextSid = 1
    /\ now = 0
    /\ jar = NoCookie
    /\ heldToken = NoToken
    /\ req = [r \in Reqs |-> Idle]
    /\ calc = NoCalc
    /\ \E simulate \in BOOLEAN :
          board = [route |-> "send-email", projects |-> ProjectIds,
                   simulate |-> simulate, emails |-> <<>>, outbox |-> <<>>,
                   rq |-> EmailIdle]

EmailRespond(rq, status, msg) ==
    [rq EXCEPT !.pc = "done", !.status = status, !.msg = msg]

\* insertEmailSchema.parse(req.body)
EmailReceive ==
    /\ board.rq.pc = "idle"
    /\ Len(board.outbox) < MaxEmails
    /\ \E body \in EmailBodies :
          LET rq == [EmailIdle EXCEPT !.body = body,
                                      !.emails0 = Len(board.emails),
                                      !.outbox0 = Len(board.outbox)] IN
          IF ~insertEmailSchemaAccepts(body)
          THEN board' = [board EXCEPT !.rq = EmailRespond(rq, 400, "Validation error")]
          ELSE board' = [board EXCEPT !.rq = [rq EXCEPT !.pc = "getProject"]]
    /\ UNCHANGED <<server, calc>>

\* await storage.getProjectById(validatedData.projectId)
EmailGetProject ==
    LET rq == board.rq IN
    /\ rq.pc = "getProject"
    /\ \E ok \in BOOLEAN :
          IF ~ok THEN board' = [board EXCEPT !.rq = EmailRespond(rq, 500, "Failed to send email")]
          ELSE IF rq.body.projectId \notin board.projects
          THEN board' = [board EXCEPT !.rq = EmailRespond(rq, 404, "Project not found")]
          ELSE board' = [board EXCEPT !.rq = [rq EXCEPT !.pc = "send"]]
    /\ UNCHANGED <<server, calc>>

\* The message the handler composes for the project.
Message(body, project) ==
    [from |-> IF normalizeEmail(body.senderEmail) = Null
              THEN "noreply@civicvoice.org" ELSE normalizeEmail(body.senderEmail),
     to |-> project.emailRecipient,
     subject |-> project.emailSubject,
     text |-> IF body.customContent = Null THEN project.emailTemplate
              ELSE body.customContent]

\* A handler that goes on to record the email whatever sendEmail reports.
EmailSendUnchecked ==
    LET rq == board.rq IN
    /\ rq.pc = "send"
    /\ \E outcome \in SmtpOutcomes :
          LET result == sendEmail(board.simulate, outcome) IN
          board' = [board EXCEPT
                       !.outbox = IF result.success
                                  THEN Append(@, Message(rq.body, Project(rq.body.projectId)))
                                  ELSE @,
                       !.rq = [rq EXCEPT !.result = result, !.pc = "create"]]
    /\ UNCHANGED <<server, calc>>

\* await sendEmail(...); if (!result.success) 500 with the reported message
EmailSend ==
    LET rq == board.rq IN
    /\ rq.pc = "send"
    /\ \E outcome \in SmtpOutcomes :
          LET result == sendEmail(board.simulate, outcome) IN
          board' = [board EXCEPT
                       !.outbox = IF result.success
                                  THEN Append(@, Message(rq.body, Project(rq.body.projectId)))
                                  ELSE @,
                       !.rq = IF result.success
                              THEN [rq EXCEPT !.result = result, !.pc = "create"]
                              ELSE EmailRespond([rq EXCEPT !.result = result],
                                                500, result.message)]
    /\ UNCHANGED <<server, calc>>

\* await storage.createEmail(validatedData); 201 with the record
EmailCreate ==
    LET rq == board.rq IN
    /\ rq.pc = "create"
    /\ \E ok \in BOOLEAN :
          IF ~ok THEN board' = [board EXCEPT !.rq = EmailRespond(rq, 500, "Failed to send email")]
          ELSE board' = [board EXCEPT !.emails = Append(@, rq.body),
                                      !.rq = EmailRespond(rq, 201, "Created")]
    /\ UNCHANGED <<server, calc>>

EmailComplete ==
    /\ board.rq.pc = "done"
    /\ board' = [board EXCEPT !.rq = EmailIdle]
    /\ UNCHANGED <<server, calc>>

NextEmail ==
    \/ EmailReceive
    \/ EmailGetProject
    \/ EmailSend
    \/ EmailCreate
    \/ EmailComplete

SpecEmail == InitEmail /\ [][NextEmail]_vars

(***************************************************************************)
(* POST /api/generate-email: the four required fields, the optional        *)
(* details folded into the description, then generateEmailTemplate: the    *)
(* built-in template without an API key or when the AI call fails, the     *)
(* AI's reply otherwise.                                                   *)
(***************************************************************************)
Absent == "(absent)"
Undefined == "(undefined)"
\* A JSON value that is not a string, and a value that is a function.
ANumber == "(number 5)"
AFunction == "(function Object)"

DraftBodies ==
    [issueType : {Absent, "sidewalk", "graffiti", "constructor"},
     location : {Absent, "456 Elm Street"},
     description : {Absent, "Cracked sidewalk"},
     urgencyLevel : {Absent, "high"},
     affectedGroups : {Absent, "school_children", ANumber}]

\* process.env.OPENAI_API_KEY
ApiKeys == {Undefined, "sk-dummy-key-for-development", "sk-live"}

\* What the completion call can come to: a rejection, no content, content
\* that is not JSON, or a JSON object with or without each of its fields.
AiReplies ==
    {[kind |-> k, emailBody |-> Undefined, emailSubject |-> Undefined,
      emailTo |-> Undefined] : k \in {"rejected", "no content", "not JSON"}}
    \cup [kind : {"json"}, emailBody : {Undefined, "Hello, the sidewalk is cracked."},
          emailSubject : {Undefined, "Cracked sidewalk"},
          emailTo : {Undefined, "roads@cityname.gov"}]

\* A lookup of a key in an object literal of the four departments and
\* "other": its own entries, then what every object inherits.
LookupIn(table, key) ==
    IF key \in DOMAIN table THEN table[key]
    ELSE IF key = "constructor" THEN AFunction
    ELSE Undefined

departmentEmails ==
    [crosswalk |-> "transportation@cityname.gov",
     pothole |-> "streetmaintenance@cityname.gov",
     sidewalk |-> "publicworks@cityname.gov",
     streetlight |-> "utilities@cityname.gov",
     other |-> "cityhall@cityname.gov"]

departments ==
    [crosswalk |-> "Transportation Department",
     pothole |-> "Street Maintenance Department",
     sidewalk |-> "Public Works Department",
     streetlight |-> "Utilities Department",
     other |-> "City Hall"]

issueNames ==
    [crosswalk |-> "crosswalk", pothole |-> "pothole", sidewalk |-> "sidewalk",
     streetlight |-> "streetlight", other |-> "infrastructure issue"]

\* table[key] || fallback
OrElse(value, fallback) == IF value = Undefined THEN fallback ELSE value

\* The snake_case conversion of the optional details.
Readable(word) == IF word = "school_children" THEN "School Children" ELSE word

getFallbackEmailTemplate(issueType, location, description, urgencyLevel) ==
    LET issueName == OrElse(LookupIn(issueNames, issueType), "infrastructure issue")
        department == OrElse(LookupIn(departments, issueType), "City Official")
    IN [emailBody |-> <<"Dear", department, "I'm writing about a", issueName,
                        "at", location,
                        IF urgencyLevel = "high"
                        THEN "This is an urgent safety issue." ELSE "">>
                      \o description,
        emailSubject |-> <<location, issueName, "needs attention">>,
        emailTo |-> <<OrElse(LookupIn(departmentEmails, issueType),
                             "cityhall@cityname.gov")>>]

\* generateEmailTemplate once the completion call has come back. The text
\* of a template field is the sequence of its parts.
TemplateFromReply(reply, issueType, location, description, urgencyLevel) ==
    IF reply.kind # "json"
    THEN getFallbackEmailTemplate(issueType, location, description, urgencyLevel)
    ELSE [emailBody |-> <<reply.emailBody>>,
          emailSubject |-> <<reply.emailSubject>>,
          emailTo |-> IF reply.emailTo = Undefined
                      THEN <<OrElse(LookupIn(departmentEmails, issueType),
                                    "cityhall@cityname.gov")>>
                      ELSE <<reply.emailTo>>]

\* A field that a response does not have.
NoField == <<Undefined>>

\* res.json: a property whose value is undefined or a function is left out.
Json(template) ==
    [f \in DOMAIN template |->
        IF template[f] = <<AFunction>> THEN NoField ELSE template[f]]

NoTemplate ==
    [emailBody |-> NoField, emailSubject |-> NoField, emailTo |-> NoField]

DraftIdle ==
    [pc |-> "idle",
     body |-> [issueType |-> Absent, location |-> Absent, description |-> Absent,
               urgencyLevel |-> Absent, affectedGroups |-> Absent],
     description |-> <<>>, status |-> 0, msg |-> "", reply |-> NoTemplate,
     generator |-> "not called"]

InitDraft ==
    /\ users = {}
    /\ nextUserId = 1
    /\ sessions = [s \in SessIds |-> NoSession]
    /\ nextSid = 1
    /\ now = 0
    /\ jar = NoCookie
    /\ heldToken = NoToken
    /\ req = [r \in Reqs |-> Idle]
    /\ calc = NoCalc
    /\ \E key \in ApiKeys :
          board = [route |-> "generate-email", apiKey |-> key, rq |-> DraftIdle]

DraftFail(rq, status, msg) ==
    [rq EXCEPT !.pc = "done", !.status = status, !.msg = msg]
DraftAnswer(rq, template, by) ==
    [rq EXCEPT !.pc = "done", !.status = 200, !.msg = "OK",
               !.reply = Json(template), !.generator = by]

\* The handler up to its await: the required fields, the enhanced
\* description.
DraftReceive ==
    /\ board.rq.pc = "idle"
    /\ \E body \in DraftBodies :
          LET rq == [DraftIdle EXCEPT !.body = body] IN
          IF Absent \in {body.issueType, body.location, body.description,
                         body.urgencyLevel}
          THEN board' = [board EXCEPT !.rq = DraftFail(rq, 400, "Missing required fields")]
          ELSE IF body.affectedGroups = ANumber
          THEN board' = [board EXCEPT
                            !.rq = DraftFail(rq, 500, "Failed to generate email template")]
          ELSE board' = [board EXCEPT
                            !.rq = [rq EXCEPT
                                       !.pc = "generate",
                                       !.description =
                                           IF body.affectedGroups = Absent
                                           THEN <<body.description>>
                                           ELSE <<body.description, "Affected Groups",
                                                  Readable(body.affectedGroups)>>]]
    /\ UNCHANGED <<server, calc>>

\* generateEmailTemplate: the built-in template when there is no API key,
\* the completion call otherwise.
DraftGenerate ==
    LET rq == board.rq IN
    /\ rq.pc = "generate"
    /\ IF board.apiKey \in {Undefined, "sk-dummy-key-for-development"}
       THEN board' = [board EXCEPT
                         !.rq = DraftAnswer(rq, getFallbackEmailTemplate(
                                    rq.body.issueType, rq.body.location,
                                    rq.description, rq.body.urgencyLevel), "no key")]
       ELSE board' = [board EXCEPT !.rq = [rq EXCEPT !.pc = "completion",
                                                     !.generator = "called"]]
    /\ UNCHANGED <<server, calc>>

\* await openai.chat.completions.create(...), and what follows it.
DraftCompletion ==
    LET rq == board.rq IN
    /\ rq.pc = "completion"
    /\ \E reply \in AiReplies :
          board' = [board EXCEPT
                       !.rq = DraftAnswer(rq, TemplateFromReply(reply,
                                  rq.body.issueType, rq.body.location,
                                  rq.description, rq.body.urgencyLevel), reply.kind)]
    /\ UNCHANGED <<server, calc>>

DraftComplete ==
    /\ board.rq.pc = "done"
    /\ board' = [board EXCEPT !.rq = DraftIdle]
    /\ UNCHANGED <<server, calc>>

NextDraft ==
    \/ DraftReceive
    \/ DraftGenerate
    \/ DraftCompletion
    \/ DraftComplete

SpecDraft == InitDraft /\ [][NextDraft]_vars

(***************************************************************************)
(* The claims.                                                             *)
(***************************************************************************)
Done(rq) == rq.pc = "done"

\* The request carried a token that verifies and names an existing identity.
TokenIdentity(rq) ==
    IF rq.auth.present /\ rq.tokValid THEN getUser(rq.auth.tok.id) ELSE NoUser

\* The request offered a token that does not verify.
InvalidTokenOffered(rq) == rq.auth.present /\ ~rq.tokValid

\* The body breaks the constraints of POST /login: a field is missing, the
\* username is shorter than 3 or the password shorter than 8 characters.
BreaksLoginConstraints(rq) ==
    \/ rq.uname = Missing \/ rq.pw = Missing
    \/ Len(rq.uname) < 3 \/ Len(rq.pw) < 8

\* C1: a request whose session cookie resolved to a live identity A is seen
\* by the handler as A from the session whatever Authorization header it
\* carries, and the token step is not tried for it.
C1_SessionPrecedence ==
    \A r \in Reqs :
        req[r].sessUser # NoUser =>
            /\ ~req[r].tokTried
            /\ req[r].handlerRan /\ req[r].route \in ProtectedRoutes \cup {"public"} =>
                   req[r].seenUser = req[r].sessUser /\ req[r].src = "session"

\* C2: a request under /api/protected/ with no session cookie and a valid,
\* unexpired bearer token of an existing identity passes the Route Gate and
\* reaches the handler as that identity.
C2_TokenPassesGate ==
    \A r \in Reqs :
        /\ Done(req[r]) /\ req[r].route = "protectedSub"
        /\ req[r].cookie = NoSess
        /\ TokenIdentity(req[r]) # NoUser
        => /\ req[r].handlerRan
           /\ req[r].status = 200
           /\ req[r].seenUser = TokenIdentity(req[r])

\* C3: a request that no session authenticated and that offers an invalid
\* token is rejected with an authentication error (401 or 403) on every
\* route and no route handler runs for it, store failures aside.
C3_InvalidTokenRejected ==
    \A r \in Reqs :
        /\ Done(req[r]) /\ req[r].sessUser = NoUser
        /\ InvalidTokenOffered(req[r])
        /\ req[r].status # 500
        => req[r].status \in {401, 403} /\ ~req[r].handlerRan

\* Neither mechanism resolved an identity and none failed: no session
\* identity, no Authorization header, no store error.
Anonymous(rq) ==
    rq.sessUser = NoUser /\ ~rq.auth.present /\ rq.status # 500

\* C4: a handler of a protected route runs only for a request that carries
\* a resolved identity (from the session or from the token), and an
\* anonymous request to a protected route is answered 401 with no handler.
C4_RouteGateSafety ==
    \A r \in Reqs :
        req[r].route \in ProtectedRoutes =>
            /\ req[r].handlerRan =>
                   /\ req[r].seenUser # NoUser
                   /\ req[r].src \in {"session", "token"}
                   /\ \/ req[r].seenUser = req[r].sessUser
                      \/ /\ req[r].auth.present /\ req[r].tokValid
                         /\ req[r].seenUser.id = req[r].auth.tok.id
            /\ Done(req[r]) /\ Anonymous(req[r]) =>
                   req[r].status = 401 /\ ~req[r].handlerRan

C4_Witness ==
    \E r \in Reqs :
        /\ Done(req[r]) /\ req[r].route = "protectedSub"
        /\ req[r].handlerRan /\ req[r].seenUser # NoUser

\* C5: the namespace-wide gate and requireAuth decide alike on a request and
\* pass the same identity.
C5_GatesAgree ==
    \A r \in Reqs :
        req[r].gate # "none" /\ req[r].reqAuth # "none" =>
            /\ req[r].gate = req[r].reqAuth
            /\ req[r].gateUser = req[r].reqAuthUser

\* C6: GET /user answers with the identity the resolver finds for the
\* request, by session or by token, and answers not-authenticated only when
\* there is none.
C6_GetUserResolved ==
    \A r \in Reqs :
        /\ Done(req[r]) /\ req[r].route = "user" /\ req[r].status # 500
        => /\ req[r].status = 401 <=>
                  req[r].sessUser = NoUser /\ TokenIdentity(req[r]) = NoUser
           /\ req[r].sessUser = NoUser /\ TokenIdentity(req[r]) # NoUser =>
                  /\ req[r].status = 200
                  /\ req[r].bodyUser = WithoutPassword(TokenIdentity(req[r]))

\* C7: a login that passes validation and fails because the account does not
\* exist, or because the password is wrong, gets one and the same response:
\* 401 with the generic message and nothing else.
C7_GenericLoginFailure ==
    \A r \in Reqs :
        /\ Done(req[r]) /\ req[r].route = "login"
        /\ req[r].verdict \in {"nouser", "badpw"}
        => /\ req[r].status = 401
           /\ req[r].msg = "Incorrect username or password"
           /\ req[r].bodyUser = NoBody /\ req[r].bodyTok = NoToken
           /\ req[r].newSid = NoSess

C7_Witness ==
    \E r \in Reqs :
        /\ Done(req[r]) /\ req[r].route = "login"
        /\ req[r].verdict = "badpw"
        /\ getUserByUsername(req[r].uname) # NoUser

C9_LoginSessionAndToken ==
    \A r \in Reqs :
        req[r].route = "login" =>
            /\ Done(req[r]) /\ req[r].status = 200 =>
                   /\ req[r].verdict = "ok"
                   /\ req[r].found.username = req[r].uname
                   /\ comparePasswords(req[r].pw, req[r].found.password)
                   /\ req[r].newSid \in SessIds
                   /\ sessions[req[r].newSid].live
                   /\ sessions[req[r].newSid].user = req[r].found.id
                   /\ req[r].bodyTok.id = req[r].found.id
                   /\ jwtVerify(req[r].bodyTok, now) = "ok"
                   /\ req[r].bodyUser = WithoutPassword(req[r].found)
                   /\ jar.sid = req[r].newSid
            /\ req[r].bodyTok # NoToken =>
                   req[r].status = 200 /\ req[r].newSid # NoSess

C9_Witness ==
    \E r \in Reqs :
        /\ Done(req[r]) /\ req[r].route = "login" /\ req[r].status = 200
        /\ req[r].bodyTok # NoToken

\* C10: a successful register has created the identity and bound a new
\* session to it, and answers with that identity; a register whose session
\* could not be established answers with an error and no identity; and a
\* GET /user that carries the cookie of the register response, while that
\* session and identity last, answers with the registered identity.
C10_RegisterAutoLogin ==
    \A r \in Reqs :
        /\ req[r].route = "register" /\ Done(req[r]) /\ req[r].status = 201 =>
               /\ req[r].found.id = nextUserId - 1
               /\ req[r].found.username = req[r].uname
               /\ req[r].found.email = req[r].email
               /\ req[r].newSid \in SessIds
               /\ sessions[req[r].newSid].live
               /\ sessions[req[r].newSid].user = req[r].found.id
               /\ jar = Cookie(req[r].newSid, "register", req[r].found)
               /\ req[r].bodyUser = WithoutPassword(req[r].found)
        /\ req[r].route = "register" /\ Done(req[r]) /\ req[r].status # 201 =>
               req[r].bodyUser = NoBody /\ req[r].newSid = NoSess
        /\ req[r].route = "register" /\ req[r].pc = "regLogin" =>
               req[r].found \in users \/ getUser(req[r].found.id) = NoUser
        /\ /\ req[r].route = "user" /\ Done(req[r]) /\ req[r].status # 500
           /\ jar.via = "register" /\ req[r].cookie = jar.sid
           /\ req[r].sid = jar.sid
           /\ getUser(jar.user) # NoUser
           => /\ req[r].status = 200
              /\ req[r].bodyUser = WithoutPassword(getUser(jar.user))

C10_Witness ==
    \E r \in Reqs :
        /\ req[r].route = "user" /\ Done(req[r]) /\ req[r].status = 200
        /\ jar.via = "register" /\ req[r].cookie = jar.sid
        /\ req[r].bodyUser.id = jar.user

\* C11: once a logout has succeeded on the session of the cookie the client
\* holds, a GET /user that carries that cookie and no Authorization header
\* is answered 401 with no identity, as long as no login or registration has
\* handed the client a new session (which replaces the cookie).
C11_LogoutEndsSession ==
    /\ jar.out => ~SessionLive(jar.sid)
    /\ \A r \in Reqs :
           /\ Done(req[r]) /\ req[r].route = "user"
           /\ jar.out /\ req[r].cookie = jar.sid /\ ~req[r].auth.present
           => /\ req[r].status = 401
              /\ req[r].bodyUser = NoBody
              /\ req[r].user = NoUser

C11_Witness ==
    \E r \in Reqs :
        /\ Done(req[r]) /\ req[r].route = "user" /\ req[r].status = 401
        /\ jar.out /\ req[r].cookie = jar.sid /\ ~req[r].auth.present

\* C12: the logout handler answers 200 whether or not the request came with
\* a live session, and 500 only when the session write fails, which leaves
\* the Session Store as it was. A logout with a live session removes that
\* entry and no other; a logout without one (a second logout with the same
\* cookie) leaves the store as the first left it; destroying the entry once
\* more changes nothing.
C12_LogoutIdempotent ==
    [][\A r \in Reqs :
          req[r].pc = "logout" /\ req'[r].pc = "done" =>
              /\ req'[r].status \in {200, 500}
              /\ req'[r].status = 500 => sessions' = sessions
              /\ req'[r].status = 200 =>
                     /\ \A s \in SessIds :
                            sessions'[s] = IF s = req[r].hadSid THEN NoSession
                                           ELSE sessions[s]
                     /\ req[r].hadSid = NoSess => sessions' = sessions
                     /\ jar.out /\ req[r].cookie = jar.sid => sessions' = sessions
                     /\ [s \in SessIds |-> IF s = req[r].hadSid THEN NoSession
                                            ELSE sessions'[s]] = sessions'
      ]_vars

\* A second logout with the cookie of a session that a logout has ended is
\* answered 200.
C12_Witness ==
    \E r \in Reqs :
        /\ Done(req[r]) /\ req[r].route = "logout" /\ req[r].status = 200
        /\ req[r].hadSid = NoSess
        /\ jar.out /\ req[r].cookie = jar.sid

\* C13: a register whose username is present when the handler looks it up
\* is answered 400 "Username already taken", and one whose email is present
\* is answered 400 "Email already registered" (store failures aside); that
\* step changes neither the Identity Store nor the Session Store, and such a
\* request has hashed no password, created no identity and set no session.
C13_DuplicateRejected ==
    [][\A r \in Reqs :
          /\ /\ req[r].pc = "regName" /\ req'[r].pc # "regName"
             /\ getUserByUsername(req[r].uname) # NoUser
             /\ req'[r].status # 500
             => /\ req'[r].pc = "done" /\ req'[r].status = 400
                /\ req'[r].msg = "Username already taken"
          /\ /\ req[r].pc = "regEmail" /\ req'[r].pc # "regEmail"
             /\ getUserByEmail(req[r].email) # NoUser
             /\ req'[r].status # 500
             => /\ req'[r].pc = "done" /\ req'[r].status = 400
                /\ req'[r].msg = "Email already registered"
          /\ req'[r].route = "register" /\ req'[r].status = 400 =>
                /\ req[r].pc \in {"regName", "regEmail"} =>
                       /\ users' = users /\ nextUserId' = nextUserId
                       /\ sessions' = sessions /\ nextSid' = nextSid
                       /\ jar' = jar
                /\ req'[r].hashCalls = 0
                /\ req'[r].found = NoUser
                /\ req'[r].newSid = NoSess
                /\ req'[r].bodyUser = NoBody
      ]_vars

C13_Witness ==
    \E r \in Reqs :
        /\ Done(req[r]) /\ req[r].route = "register" /\ req[r].status = 400
        /\ req[r].msg = "Email already registered"
        /\ getUserByEmail(req[r].email) # NoUser
        /\ getUserByUsername(req[r].uname) = NoUser

\* C14: under every interleaving of two registrations, no two identities of
\* the Identity Store share an id, a username or an email, and of two
\* requests in flight with the same username or the same email at most one
\* has created an identity and at most one is answered 201.
C14_UniqueIdentities ==
    /\ \A u, v \in users :
           u # v => u.id # v.id /\ u.username # v.username /\ u.email # v.email
    /\ \A p, q \in RaceReqs :
           /\ p # q
           /\ req[p].route = "register" /\ req[q].route = "register"
           /\ req[p].uname = req[q].uname \/ req[p].email = req[q].email
           => /\ ~(req[p].found # NoUser /\ req[q].found # NoUser)
              /\ ~(req[p].status = 201 /\ req[q].status = 201)

\* Both requests passed both existence checks before either created; one
\* was answered 201 and the other failed at createUser.
C14_Witness ==
    \E p, q \in RaceReqs :
        /\ p # q
        /\ req[p].uname = req[q].uname
        /\ req[p].status = 201
        /\ req[q].status = 500 /\ req[q].msg = "Registration failed"
        /\ req[q].hashCalls = 1 /\ req[q].found = NoUser
        /\ Cardinality(users) = 1

\* The values of a response body: the message and the fields of the
\* identity it carries.
BodyValues(rq) ==
    {rq.msg} \cup {rq.bodyUser[f] : f \in DOMAIN rq.bodyUser \ {"id", "password"}}

\* C15: no response of POST /register, POST /login or GET /user, success or
\* error, carries a password field, the submitted plaintext or the stored
\* hash of an identity; and the password stored for every identity, and
\* handed to createUser by every register, is hashPassword of the submitted
\* password under the salt drawn, never the plaintext.
C15_CredentialSecrecy ==
    /\ \A r \in Reqs :
           req[r].route \in {"register", "login", "user"} =>
               /\ "password" \notin DOMAIN req[r].bodyUser
               /\ req[r].pw = Missing \/ req[r].pw \notin BodyValues(req[r])
               /\ req[r].route = "register" /\ req[r].found # NoUser =>
                      /\ req[r].found.password =
                             hashPassword(req[r].pw, req[r].found.password.salt)
                      /\ req[r].found.password.salt \in Salts
    /\ \A u \in users :
           \E b \in RegBodies, salt \in Salts :
               /\ u.password = hashPassword(b.password, salt)
               /\ u.password.hash # b.password

\* A login has answered with the identity of a stored record whose password
\* is the hash of the submitted one.
C15_Witness ==
    \E r \in Reqs :
        /\ Done(req[r]) /\ req[r].route = "login" /\ req[r].status = 200
        /\ req[r].bodyUser.id = req[r].found.id
        /\ req[r].found.password = hashPassword(req[r].pw, req[r].found.password.salt)
        /\ req[r].found \in users

\* C16: for every password p and every salt hashPassword draws,
\* comparePasswords(p, hashPassword(p)) returns true (and does not throw),
\* and the verify callback accepts p for a user that holds the value.
C16_HashRoundTrip ==
    /\ calc.kind = "wellformed" =>
           /\ ~comparePasswordsThrows(calc.password, calc.stored)
           /\ comparePasswords(calc.password, calc.stored)
    /\ /\ calc.kind = "wellformed" /\ calc.supplied = calc.password
       /\ calc.pc \in {"compared", "verified"}
       => calc.outcome = "true"
    /\ /\ calc.kind = "wellformed" /\ calc.supplied = calc.password
       /\ calc.pc = "verified"
       => calc.verdict = "ok"

C16_Witness ==
    /\ calc.pc = "verified" /\ calc.kind = "wellformed"
    /\ calc.supplied = calc.password /\ calc.outcome = "true"
    /\ calc.stored.salt = NumCalcSalts

\* comparePasswords(q, hashPassword(p)) returns false for all p # q, under
\* every salt.
OtherPasswordsRefused ==
    \A p \in Passwords, q \in Passwords, salt \in CalcSalts :
        p # q =>
            /\ ~comparePasswordsThrows(q, hashPassword(p, salt))
            /\ ~comparePasswords(q, hashPassword(p, salt))

\* C17: for all passwords p # q and every salt, comparePasswords(q,
\* hashPassword(p)) returns false; and a login establishes a session or
\* hands out a token only for a user whose stored value is the hash of the
\* submitted password, so a login with another password than the registered
\* one is answered 401 with no session and no token.
C17_WrongPasswordRejected ==
    /\ OtherPasswordsRefused
    /\ \A r \in Reqs :
           req[r].route = "login" =>
               /\ \/ req[r].verdict = "ok" \/ req[r].pc = "loginSess"
                  \/ req[r].newSid # NoSess \/ req[r].bodyTok # NoToken
                  => /\ req[r].found # NoUser
                     /\ req[r].found.username = req[r].uname
                     /\ req[r].found.password =
                            hashPassword(req[r].pw, req[r].found.password.salt)
               /\ req[r].verdict = "badpw" =>
                      /\ req[r].status = 401
                      /\ req[r].newSid = NoSess /\ req[r].bodyTok = NoToken

\* A login named a stored user with a password whose hash is not the stored
\* one, and was refused.
C17_Witness ==
    \E r \in Reqs :
        LET u == getUserByUsername(req[r].uname) IN
        /\ Done(req[r]) /\ req[r].route = "login"
        /\ u # NoUser
        /\ u.password # hashPassword(req[r].pw, u.password.salt)
        /\ req[r].verdict = "badpw" /\ req[r].status = 401
        /\ req[r].newSid = NoSess

\* C18: for every malformed stored value (no '.' separator, empty hash
\* part, hash part of another length, non-hex characters) comparePasswords
\* returns false and does not throw, and the verify callback on a user that
\* holds it reports wrong credentials, not an error.
C18_MalformedIsFalse ==
    calc.kind \in MalformedKinds =>
        /\ calc.pc \in {"compared", "verified"} => calc.outcome = "false"
        /\ calc.pc = "verified" => calc.verdict = "badpw"

\* C19: a token issued for id i and verified at once under JWT_SECRET
\* yields i; a token whose signature was not made with JWT_SECRET over its
\* claims (made with another key, unsigned, or rewritten after signing)
\* yields no id at any time: its signature is refused before its expiry or
\* its id is read.
C19_TokenRoundTrip ==
    calc.pc = "verified" =>
        /\ calc.kind = "issued" /\ calc.at = calc.issued =>
               calc.result = "ok" /\ calc.payloadId = calc.id
        /\ calc.kind = "issued" /\ calc.result = "ok" => calc.payloadId = calc.id
        /\ calc.kind \in {"forged", "tampered"} =>
               calc.result = "JsonWebTokenError" /\ calc.payloadId = NoId
        /\ calc.payloadId # NoId =>
               calc.tok.sig = Signature(calc.tok.id, calc.tok.exp, JWT_SECRET)

\* An issued token verified at once, for the last id of the model.
C19_Witness ==
    /\ calc.pc = "verified" /\ calc.kind = "issued"
    /\ calc.at = calc.issued /\ calc.payloadId = MaxUsers

\* The request carries a token that was signed with JWT_SECRET and whose
\* expiry has come.
ExpiredTokenOffered(rq) ==
    /\ rq.auth.present /\ rq.auth.tok.form = "jwt"
    /\ rq.auth.tok.sig = Signature(rq.auth.tok.id, rq.auth.tok.exp, JWT_SECRET)
    /\ now >= rq.auth.tok.exp

\* C20: the token of a login expires 7 days after its issue: it verifies on
\* each of the days before and is reported expired from then on. A request
\* that offers a token whose expiry has come is never given the identity by
\* the token: verification reports TokenExpiredError, no lookup by the
\* token's id is made, req.user stays what the session step left, and the
\* JWT middleware answers it 403 when the request gets that far.
C20_TokenExpiry ==
    \A r \in Reqs :
        /\ req[r].route = "login" /\ Done(req[r]) /\ req[r].status = 200 =>
               /\ req[r].bodyTok.exp = now + TOKEN_EXPIRATION
               /\ \A t \in 0..(MaxTime + TOKEN_EXPIRATION + 1) :
                      /\ now <= t /\ t < now + TOKEN_EXPIRATION =>
                             jwtVerify(req[r].bodyTok, t) = "ok"
                      /\ t >= now + TOKEN_EXPIRATION =>
                             /\ jwtVerify(req[r].bodyTok, t) = "TokenExpiredError"
                             /\ VerifiedId(req[r].bodyTok, t) = NoId
        /\ req[r].pc # "idle" /\ ExpiredTokenOffered(req[r]) =>
               /\ jwtVerify(req[r].auth.tok, now) = "TokenExpiredError"
               /\ VerifiedId(req[r].auth.tok, now) = NoId
               /\ req[r].pc # "jwtLookup"
               /\ req[r].src # "token"
               /\ req[r].user \in {NoUser, req[r].sessUser}
               /\ req[r].seenUser \in {NoUser, req[r].sessUser}
               /\ req[r].tokTried =>
                      /\ Done(req[r]) /\ req[r].status = 403
                      /\ req[r].msg = "Invalid or expired token"
                      /\ ~req[r].handlerRan

\* A request offered the token of a login on the day of its expiry, with no
\* session, and the JWT middleware refused it.
C20_Witness ==
    \E r \in Reqs :
        /\ Done(req[r]) /\ ExpiredTokenOffered(req[r])
        /\ req[r].auth.tok = heldToken
        /\ getUser(heldToken.id) # NoUser
        /\ req[r].tokTried /\ req[r].status = 403
        /\ req[r].sessUser = NoUser

\* The client has logged out of the session of its last login and still
\* holds the token of that login, which has not expired.
LoggedOutWithToken ==
    jar.via = "login" /\ jar.out /\ now < heldToken.exp

\* C21: logout does not revoke the token. After a login issued token T and
\* the client logged out, T is still the token signed for the identity of
\* that login and verifies to its id until its expiry; a request that offers
\* T with no session cookie to the JWT middleware passes verification and is
\* looked up under that id, reaches the handler as that identity while the
\* account exists, and is never refused as invalid or expired.
C21_TokenSurvivesLogout ==
    /\ jar.via = "login" /\ jar.out =>
           /\ heldToken.id = jar.user
           /\ heldToken = jwtSign(jar.user, heldToken.exp - TOKEN_EXPIRATION)
    /\ LoggedOutWithToken =>
           /\ jwtVerify(heldToken, now) = "ok"
           /\ VerifiedId(heldToken, now) = jar.user
    /\ \A r \in Reqs :
           /\ LoggedOutWithToken
           /\ req[r].auth = Bearer(heldToken) /\ req[r].cookie = NoSess
           /\ req[r].tokTried
           => /\ req[r].tokValid
              /\ req[r].lookupId = jar.user
              /\ req[r].pc = "jwtLookup" \/ Done(req[r])
              /\ Done(req[r]) =>
                     /\ req[r].msg # "Invalid or expired token"
                     /\ req[r].status \in {200, 403, 500}
                     /\ req[r].status = 403 => req[r].msg = "User not found"
                     /\ req[r].status = 200 =>
                            /\ req[r].handlerRan
                            /\ req[r].seenUser.id = jar.user
                            /\ req[r].src = "token"
                     /\ getUser(jar.user) # NoUser /\ req[r].status # 500 =>
                            req[r].status = 200

\* After the logout, a request with the token and no cookie was served as
\* the identity of the login.
C21_Witness ==
    \E r \in Reqs :
        /\ LoggedOutWithToken
        /\ Done(req[r]) /\ req[r].route = "public" /\ req[r].status = 200
        /\ req[r].auth = Bearer(heldToken) /\ req[r].cookie = NoSess
        /\ req[r].seenUser.id = jar.user /\ req[r].src = "token"
        /\ ~SessionLive(jar.sid)

\* C22: when the session step looks up the id of an unexpired session and
\* the Identity Store holds no such identity, the request goes on as
\* anonymous with no error (GET /user answers 401 "Not authenticated"), and
\* the session loses its binding to the id; a request that arrives on a
\* session without a binding is not looked up and carries no identity.
C22_DeletedIdentityEndsSession ==
    [][\A r \in Reqs :
          /\ /\ req[r].pc = "deser" /\ req'[r].pc # "deser"
             /\ getUser(req[r].lookupId) = NoUser
             /\ req'[r].status # 500
             => /\ req'[r].user = NoUser /\ req'[r].sessUser = NoUser
                /\ req'[r].src # "session"
                /\ sessions'[req[r].sid].user = NoId
                /\ req[r].route = "user" =>
                       /\ req'[r].pc = "done" /\ req'[r].status = 401
                       /\ req'[r].msg = "Not authenticated"
                       /\ req'[r].bodyUser = NoBody
          /\ /\ req[r].pc = "idle" /\ req'[r].pc # "idle"
             /\ req'[r].cookie # NoSess
             /\ sessions[req'[r].cookie].user = NoId
             => /\ req'[r].pc # "deser"
                /\ req'[r].user = NoUser /\ req'[r].sessUser = NoUser
      ]_vars

\* The account of the client's live session was removed, and a GET /user
\* with the cookie was answered 401; the entry has lost its binding.
C22_Witness ==
    \E r \in Reqs :
        /\ Done(req[r]) /\ req[r].route = "user" /\ req[r].status = 401
        /\ req[r].cookie = jar.sid /\ req[r].sid = jar.sid /\ ~jar.out
        /\ jar.user # NoId /\ getUser(jar.user) = NoUser
        /\ req[r].lookupId = jar.user
        /\ sessions[jar.sid].live /\ sessions[jar.sid].user = NoId

\* C23: a session lives 7 days from its creation: until then the cookie of
\* the client's session resolves, and every request that presents it from
\* the expiry of that cookie on is anonymous, without an error, and finds the
\* entry removed from the Session Store by its own resolve attempt.
C23_SessionExpiry ==
    /\ jar.sid # NoSess /\ ~jar.out /\ now < jar.expires => SessionLive(jar.sid)
    /\ \A r \in Reqs :
           /\ req[r].pc # "idle"
           /\ req[r].cookie # NoSess /\ req[r].cookie = jar.sid
           /\ now >= jar.expires
           => /\ req[r].sid = NoSess
              /\ req[r].sessUser = NoUser /\ req[r].src # "session"
              /\ req[r].pc # "deser"
              /\ ~sessions[req[r].cookie].live

\* C24: in the token step the identity is attached to the request only when
\* the lookup has resolved to an existing identity, the one the request's
\* own token names, and the next handler runs only after that. While the
\* lookup is in flight the request carries no identity from the token; a
\* lookup that fails or finds nothing leaves none; a request whose
\* connection closed while its lookup was in flight has its result
\* discarded: no identity from the token, no handler. Requests in flight
\* together carry their own identities only.
C24_NoTornIdentity ==
    \A p \in RaceReqs :
        LET rq == req[p] IN
        /\ rq.pc = "jwtLookup" =>
               /\ rq.src # "token" /\ rq.user = rq.sessUser
               /\ ~rq.handlerRan
        /\ rq.src = "token" =>
               /\ rq.tokTried /\ rq.tokValid /\ Done(rq)
               /\ rq.user \in TornUsers
               /\ rq.user.id = rq.auth.tok.id
        /\ rq.src = "session" =>
               /\ rq.cookie = jar.sid /\ rq.user \in TornUsers
               /\ rq.user.id = jar.user
        /\ rq.tokTried /\ rq.handlerRan =>
               rq.src = "token" /\ rq.seenUser = rq.user
        /\ Done(rq) /\ rq.tokTried /\ rq.status \in {403, 500} =>
               rq.src # "token" /\ rq.user = rq.sessUser
        /\ rq.closed =>
               /\ rq.src # "token"
               /\ rq.tokTried => ~rq.handlerRan

\* The messages of the server-error responses: fixed texts that say nothing
\* of the error behind them.
GenericErrors ==
    {"Internal server error", "Internal Server Error", "Registration failed"}

MissingClaim(tok, t) == jwtVerify(tok, t) = "ok" /\ tok.id = NoId

\* C26: a request that reaches the JWT middleware with a token that
\* verifies but has no id claim is refused as a token that does not verify
\* is: 403, the request keeps the identity the session step left it, none
\* from the token, no lookup is made for the token and the next handler is
\* not called. A token that verifies and names an id for which the lookup
\* finds no identity is refused 403 "User not found" in the same way.
C26_UnusableTokenRejected ==
    [][\A r \in Reqs :
          /\ /\ req'[r].tokTried
             /\ jwtVerify(req'[r].auth.tok, now') # "ok" \/ MissingClaim(req'[r].auth.tok, now')
             => /\ req'[r].pc = "done" /\ req'[r].status = 403
                /\ req'[r].msg = IF jwtVerify(req'[r].auth.tok, now') = "ok"
                                 THEN "Invalid token payload"
                                 ELSE "Invalid or expired token"
                /\ req'[r].user = req'[r].sessUser /\ req'[r].src # "token"
                /\ ~req'[r].handlerRan /\ req'[r].seenUser = NoUser
                /\ req'[r].storeCalls = (IF req'[r].lookupId = NoId THEN 0 ELSE 1)
                /\ req'[r].lookupId # NoId => req'[r].sid # NoSess
          /\ /\ req[r].pc = "jwtLookup" /\ req'[r].pc # "jwtLookup"
             /\ getUser(req[r].lookupId) = NoUser
             /\ req'[r].status # 500
             => /\ req'[r].pc = "done" /\ req'[r].status = 403
                /\ req'[r].msg = "User not found"
                /\ req'[r].user = req'[r].sessUser /\ req'[r].src # "token"
                /\ ~req'[r].handlerRan /\ req'[r].seenUser = NoUser
      ]_vars

\* A request without a session offered a token that verifies and has no id,
\* and was refused.
C26_Witness ==
    \E r \in Reqs :
        /\ Done(req[r]) /\ req[r].tokTried
        /\ MissingClaim(req[r].auth.tok, now)
        /\ req[r].cookie = NoSess
        /\ req[r].status = 403 /\ req[r].user = NoUser /\ ~req[r].handlerRan

\* C27: every request that reaches the JWT middleware with an Authorization
\* header that is not "Bearer" followed by a validly signed, unexpired token
\* (another scheme, a scheme alone, a single word) is answered 403 and no
\* handler runs for it; and every request the middleware tried a token for
\* ends either in next(), with the handler run, or in one error response of
\* the middleware, never both.
C27_AnySchemeRejected ==
    \A r \in Reqs :
        /\ /\ req[r].tokTried
           /\ ~(req[r].auth.scheme = "Bearer" /\ jwtVerify(req[r].auth.tok, now) = "ok")
           => /\ Done(req[r]) /\ req[r].status = 403
              /\ ~req[r].handlerRan
        /\ Done(req[r]) /\ req[r].tokTried =>
              \/ req[r].src = "token" /\ req[r].handlerRan /\ req[r].status = 200
              \/ req[r].src # "token" /\ ~req[r].handlerRan /\ req[r].status \in {403, 500}

\* The rows of the upvote table for a project and an address.
UpvotesOf(projectId, ipAddress) ==
    {i \in DOMAIN board.upvotes :
        board.upvotes[i] = [projectId |-> projectId, ipAddress |-> ipAddress]}

\* C28: under every interleaving of upvote requests the upvote table holds
\* at most one row for each project and IP address; a request from an
\* address that has already upvoted the project is answered 400 and adds
\* nothing; and no row is ever added for a project that does not exist.
C28_OneUpvotePerIp ==
    /\ \A p \in RequestedIds, ip \in IpAddresses :
           Cardinality(UpvotesOf(p, ip)) <= 1
    /\ \A i \in DOMAIN board.upvotes : board.upvotes[i].projectId \in board.projects
    /\ \A q \in RaceReqs :
           /\ board.reqs[q].sawUpvote =>
                  board.reqs[q].status = 400 /\ ~board.reqs[q].created
           /\ board.reqs[q].status \in {400, 404} => ~board.reqs[q].created

\* What a finished send-email request added to the email table and handed
\* to the mailer, and what the claim's three conditions are for it.
EmailsAdded == Len(board.emails) - board.rq.emails0
EmailsSent == Len(board.outbox) - board.rq.outbox0
EmailPreconditions ==
    /\ insertEmailSchemaAccepts(board.rq.body)
    /\ board.rq.body.projectId \in board.projects
    /\ board.rq.result.success

\* What holds of every finished send-email request, whichever way the
\* record's creation is stated: a record is added only under the three
\* conditions, a missing project sends and records nothing, a reported send
\* failure records nothing and is answered 500 with the reported message.
EmailOnlyAfterSend ==
    /\ EmailsAdded \in {0, 1} /\ EmailsSent \in {0, 1}
    /\ EmailsAdded = 1 =>
           /\ EmailPreconditions
           /\ board.rq.status = 201
           /\ board.emails[Len(board.emails)] = board.rq.body
           /\ EmailsSent = 1
    /\ ~insertEmailSchemaAccepts(board.rq.body) =>
           board.rq.status = 400 /\ EmailsSent = 0 /\ EmailsAdded = 0
    /\ board.rq.status = 404 =>
           /\ board.rq.body.projectId \notin board.projects
           /\ EmailsSent = 0 /\ EmailsAdded = 0
    /\ board.rq.result.message = "Failed to send email: connect ECONNREFUSED" =>
           /\ board.rq.status = 500
           /\ board.rq.msg = board.rq.result.message
           /\ EmailsSent = 0 /\ EmailsAdded = 0

\* C29 as stated: a record is created if and only if the body validated,
\* the project exists and sendEmail reported success; a missing project
\* (404) sends and records nothing, a reported send failure (500) records
\* nothing.
C29_RecordIffSent ==
    (board.route = "send-email" /\ board.rq.pc = "done") =>
        /\ EmailOnlyAfterSend
        /\ EmailPreconditions => EmailsAdded = 1

\* C29, amended: a record is created only if the body validated, the project
\* exists and sendEmail reported success, and under these conditions it is
\* created unless storage.createEmail fails: then the answer is 500 "Failed
\* to send email", the message has gone out and no record exists. A missing
\* project (404) sends and records nothing, a reported send failure (500)
\* records nothing.
C29_RecordOnlyAfterSend ==
    (board.route = "send-email" /\ board.rq.pc = "done") =>
        /\ EmailOnlyAfterSend
        /\ EmailPreconditions =>
              \/ EmailsAdded = 1 /\ board.rq.status = 201
              \/ /\ EmailsAdded = 0 /\ EmailsSent = 1
                 /\ board.rq.status = 500
                 /\ board.rq.msg = "Failed to send email"
        /\ board.rq.status = 201 <=> EmailsAdded = 1

\* After a send-email request whose record is in the table, a second one is
\* finished whose message went out and whose record could not be stored.
C29_Witness ==
    /\ board.route = "send-email" /\ board.rq.pc = "done"
    /\ Len(board.emails) = 1 /\ Len(board.outbox) = 2
    /\ board.rq.status = 500 /\ EmailPreconditions

\* The four required fields of a generate-email request are all present.
DraftFieldsPresent ==
    Absent \notin {board.rq.body.issueType, board.rq.body.location,
                   board.rq.body.description, board.rq.body.urgencyLevel}

\* The department address the claim names for an issue type.
DepartmentAddress(issueType) ==
    IF issueType \in DOMAIN departmentEmails THEN departmentEmails[issueType]
    ELSE "cityhall@cityname.gov"

\* C30: a generate-email request with issueType, location, description and
\* urgencyLevel present is always answered with a template that has
\* emailBody, emailSubject and emailTo, never with an error; its emailTo is
\* never empty, and is the department address of the issue type (City Hall
\* for unknown types) whenever the built-in template or the default
\* recipient is used; a request missing one of the four fields is answered
\* 400 without the generator being called.
C30_AlwaysATemplate ==
    (board.route = "generate-email" /\ board.rq.pc = "done") =>
        /\ DraftFieldsPresent =>
              /\ board.rq.status = 200
              /\ board.rq.reply.emailBody # NoField
              /\ board.rq.reply.emailSubject # NoField
              /\ board.rq.reply.emailTo # NoField
              /\ board.rq.generator \in {"no key", "rejected", "no content", "not JSON"} =>
                     board.rq.reply.emailTo = <<DepartmentAddress(board.rq.body.issueType)>>
        /\ ~DraftFieldsPresent =>
              /\ board.rq.status = 400
              /\ board.rq.generator = "not called"
              /\ board.rq.reply = NoTemplate

====
